---- MODULE Spec2Model ----
(***************************************************************************)
(* Model of the end-to-end encrypted direct-message subsystem of mesh-cli  *)
(* (cmd/mesh/dm.go) and of the collaborators it uses.                      *)
(*                                                                         *)
(* Byte strings are sequences over 0..255.  Base64 text is a sequence over *)
(* 0..65: 0..63 are the sextet values of the standard alphabet, 64 is the  *)
(* padding character '=' and 65 stands for any character outside the      *)
(* alphabet.                                                               *)
(***************************************************************************)
EXTENDS Integers, Sequences, FiniteSets, TLC

(***************************************************************************)
(* Bounds of the model.                                                    *)
(***************************************************************************)
\* number of reads of crypto/rand.Reader in one behaviour
MaxRand == 3
\* longest plaintext handed to encryptMessage
MaxMsgLen == 2
\* number of envelopes produced in one behaviour of the cipher harness
MaxEnc == 2

(***************************************************************************)
(* Sizes fixed by the program.                                             *)
(***************************************************************************)
KeySize == 32
NonceSize == 24
TagSize == 16

PadChar == 64
BadChar == 65

ZeroBytes(n) == [i \in 1..n |-> 0]

(***************************************************************************)
(* encoding/base64 StdEncoding                                             *)
(***************************************************************************)
ByteAt(b, i) == IF i <= Len(b) THEN b[i] ELSE 0

B64Char(b, k) ==
    LET g  == k \div 4
        r  == k % 4
        b0 == ByteAt(b, 3 * g + 1)
        b1 == ByteAt(b, 3 * g + 2)
        b2 == ByteAt(b, 3 * g + 3)
    IN  CASE r = 0 -> b0 \div 4
          [] r = 1 -> (b0 % 4) * 16 + (b1 \div 16)
          [] r = 2 -> IF 3 * g + 2 > Len(b) THEN PadChar
                      ELSE (b1 % 16) * 4 + (b2 \div 64)
          [] r = 3 -> IF 3 * g + 3 > Len(b) THEN PadChar
                      ELSE b2 % 64

\* base64.StdEncoding.EncodeToString
EncodeToString(b) ==
    [j \in 1..(4 * ((Len(b) + 2) \div 3)) |-> B64Char(b, j - 1)]

\* number of padding characters at the end of s (0, 1 or 2; 3 = malformed)
PadCount(s) ==
    IF Len(s) = 0 \/ s[Len(s)] # PadChar THEN 0
    ELSE IF Len(s) < 2 \/ s[Len(s) - 1] # PadChar THEN 1
    ELSE IF Len(s) < 3 \/ s[Len(s) - 2] # PadChar THEN 2
    ELSE 3

\* the input is well-formed padded base64
B64WellFormed(s) ==
    /\ Len(s) % 4 = 0
    /\ PadCount(s) <= 2
    /\ \A j \in 1..(Len(s) - PadCount(s)) : s[j] < PadChar

SextetAt(s, j) == IF j <= Len(s) /\ s[j] < PadChar THEN s[j] ELSE 0

B64Byte(s, k) ==
    LET g  == k \div 3
        r  == k % 3
        s0 == SextetAt(s, 4 * g + 1)
        s1 == SextetAt(s, 4 * g + 2)
        s2 == SextetAt(s, 4 * g + 3)
        s3 == SextetAt(s, 4 * g + 4)
    IN  CASE r = 0 -> s0 * 4 + (s1 \div 16)
          [] r = 1 -> (s1 % 16) * 16 + (s2 \div 4)
          [] r = 2 -> (s2 % 4) * 64 + s3

\* base64.StdEncoding.DecodeString: err is "" on success
DecodeString(s) ==
    IF ~B64WellFormed(s)
    THEN [err |-> "illegal base64 data", bytes |-> <<>>]
    ELSE [err |-> "",
          bytes |-> [i \in 1..(3 * (Len(s) \div 4) - PadCount(s)) |->
                        B64Byte(s, i - 1)]]

\* copy(dst[:], src) into a zeroed array of n bytes
CopyInto(n, src) == [i \in 1..n |-> IF i <= Len(src) THEN src[i] ELSE 0]

(***************************************************************************)
(* crypto/rand and golang.org/x/crypto/nacl/box                            *)
(*                                                                         *)
(* The d-th read of the random source yields bytes that no other read      *)
(* yields.  The box construction is modelled over the additive group of    *)
(* integers modulo 251 in place of Curve25519: a public key is the private *)
(* key times the base point 9, the shared key is the private key times the *)
(* peer's public key, the stream cipher adds a key stream derived from the *)
(* shared key and the nonce, and the 16-byte tag is a checksum of the      *)
(* shared key, the nonce and the ciphertext.                               *)
(***************************************************************************)
\* io.ReadFull(rand.Reader, buf) on the d-th read; d = 0 is a failed read
ReadRand(d, n) ==
    IF d = 0 THEN [err |-> "rand", bytes |-> <<>>]
    ELSE [err |-> "", bytes |-> [i \in 1..n |-> (16 * d + i) % 256]]

ScalarBaseMult(priv) == [i \in 1..KeySize |-> (priv[i] * 9) % 251]

\* box.GenerateKey(rand.Reader)
GenerateKey(rnd) ==
    IF rnd.err # ""
    THEN [err |-> rnd.err, priv |-> <<>>, pub |-> <<>>]
    ELSE [err |-> "", priv |-> rnd.bytes, pub |-> ScalarBaseMult(rnd.bytes)]

\* box.Precompute: the shared key of a private key and a peer's public key
Precompute(peersPublicKey, privateKey) ==
    [i \in 1..KeySize |-> (privateKey[i] * peersPublicKey[i]) % 251]

SumSeq(s) ==
    LET RECURSIVE Sum(_)
        Sum(n) == IF n = 0 THEN 0 ELSE s[n] + Sum(n - 1)
    IN  Sum(Len(s))

KeyStream(shared, nonce, j) ==
    (shared[((j - 1) % KeySize) + 1] + nonce[((j - 1) % NonceSize) + 1] + j) % 256

BoxTag(shared, nonce, cipher) ==
    [i \in 1..TagSize |->
        (shared[i] + shared[i + TagSize] + nonce[i] + SumSeq(cipher)
           + Len(cipher)) % 256]

\* box.Seal(out, message, nonce, peersPublicKey, privateKey):
\* out with the tag and the encrypted message appended
Seal(out, message, nonce, peersPublicKey, privateKey) ==
    LET shared == Precompute(peersPublicKey, privateKey)
        cipher == [j \in 1..Len(message) |->
                      (message[j] + KeyStream(shared, nonce, j)) % 256]
    IN  out \o BoxTag(shared, nonce, cipher) \o cipher

\* box.Open(nil, box, nonce, peersPublicKey, privateKey)
Open(box, nonce, peersPublicKey, privateKey) ==
    LET shared == Precompute(peersPublicKey, privateKey)
        cipher == SubSeq(box, TagSize + 1, Len(box))
    IN  IF Len(box) < TagSize
        THEN [ok |-> FALSE, bytes |-> <<>>]
        ELSE IF SubSeq(box, 1, TagSize) # BoxTag(shared, nonce, cipher)
        THEN [ok |-> FALSE, bytes |-> <<>>]
        ELSE [ok |-> TRUE,
              bytes |-> [j \in 1..Len(cipher) |->
                           (cipher[j] + 256 - KeyStream(shared, nonce, j)) % 256]]

(***************************************************************************)
(* cmd/mesh/dm.go: the message cipher                                      *)
(***************************************************************************)
\* encryptMessage that does not put the nonce in front of the sealed box
encryptMessage_NoNoncePrefix(message, senderPrivateKey, recipientPublicKey, rnd) ==
    IF rnd.err # ""
    THEN [err |-> "generate nonce", val |-> <<>>]
    ELSE [err |-> "",
          val |-> EncodeToString(Seal(<<>>, message, rnd.bytes,
                                      recipientPublicKey, senderPrivateKey))]

\* encryptMessage that never fills the nonce array
encryptMessage_FixedNonce(message, senderPrivateKey, recipientPublicKey, rnd) ==
    IF rnd.err # ""
    THEN [err |-> "generate nonce", val |-> <<>>]
    ELSE LET nonce == ZeroBytes(NonceSize)
         IN  [err |-> "",
              val |-> EncodeToString(Seal(nonce, message, nonce,
                                          recipientPublicKey, senderPrivateKey))]

\* encryptMessage; rnd is the result of reading the nonce from rand.Reader
encryptMessage(message, senderPrivateKey, recipientPublicKey, rnd) ==
    IF rnd.err # ""
    THEN [err |-> "generate nonce", val |-> <<>>]
    ELSE LET nonce == rnd.bytes
             encrypted == Seal(nonce, message, nonce, recipientPublicKey,
                               senderPrivateKey)
         IN  [err |-> "", val |-> EncodeToString(encrypted)]

\* decryptMessage that does not look at the ok result of box.Open
decryptMessage_IgnoreOk(encrypted, recipientPrivateKey, senderPublicKey) ==
    LET dec == DecodeString(encrypted)
    IN  IF dec.err # ""
        THEN [err |-> "decode", val |-> <<>>]
        ELSE IF Len(dec.bytes) < NonceSize
        THEN [err |-> "invalid encrypted message", val |-> <<>>]
        ELSE [err |-> "",
              val |-> Open(SubSeq(dec.bytes, NonceSize + 1, Len(dec.bytes)),
                           SubSeq(dec.bytes, 1, NonceSize), senderPublicKey,
                           recipientPrivateKey).bytes]

\* decryptMessage reporting a short input as a failed authentication
decryptMessage_ShortAsAuth(encrypted, recipientPrivateKey, senderPublicKey) ==
    LET dec == DecodeString(encrypted)
    IN  IF dec.err # ""
        THEN [err |-> "decode", val |-> <<>>]
        ELSE IF Len(dec.bytes) < NonceSize
        THEN [err |-> "decryption failed", val |-> <<>>]
        ELSE LET nonce == SubSeq(dec.bytes, 1, NonceSize)
                 opened == Open(SubSeq(dec.bytes, NonceSize + 1, Len(dec.bytes)),
                                nonce, senderPublicKey, recipientPrivateKey)
             IN  IF ~opened.ok
                 THEN [err |-> "decryption failed", val |-> <<>>]
                 ELSE [err |-> "", val |-> opened.bytes]

decryptMessage(encrypted, recipientPrivateKey, senderPublicKey) ==
    LET dec == DecodeString(encrypted)
    IN  IF dec.err # ""
        THEN [err |-> "decode", val |-> <<>>]
        ELSE IF Len(dec.bytes) < NonceSize
        THEN [err |-> "invalid encrypted message", val |-> <<>>]
        ELSE LET nonce == SubSeq(dec.bytes, 1, NonceSize)
                 opened == Open(SubSeq(dec.bytes, NonceSize + 1, Len(dec.bytes)),
                                nonce, senderPublicKey, recipientPrivateKey)
             IN  IF ~opened.ok
                 THEN [err |-> "decryption failed", val |-> <<>>]
                 ELSE [err |-> "", val |-> opened.bytes]

\* decodePublicKey
\* decodePublicKey without the test of the length
decodePublicKey_NoLengthCheck(encoded) ==
    LET dec == DecodeString(encoded)
    IN  IF dec.err # ""
        THEN [err |-> dec.err, key |-> <<>>]
        ELSE [err |-> "", key |-> CopyInto(KeySize, dec.bytes)]

decodePublicKey(encoded) ==
    LET dec == DecodeString(encoded)
    IN  IF dec.err # ""
        THEN [err |-> dec.err, key |-> <<>>]
        ELSE IF Len(dec.bytes) # KeySize
        THEN [err |-> "invalid key length", key |-> <<>>]
        ELSE [err |-> "", key |-> CopyInto(KeySize, dec.bytes)]

(***************************************************************************)
(* cmd/mesh/dm.go: the key store                                           *)
(*                                                                         *)
(* The key file ~/.msh/keys/dm_private.key is a record: home says whether  *)
(* os.UserHomeDir succeeds, dirOK whether the keys directory exists or can *)
(* be created, exists/readable/writable describe the file, json says       *)
(* whether its content parses as the JSON document, and private_key and    *)
(* public_key are the two string fields of that document ("" when the      *)
(* field is missing).  Base64 text contains no character that JSON         *)
(* escapes, so the fields are stored as they are.                          *)
(***************************************************************************)
NoKeys == [err |-> "", priv |-> <<>>, pub |-> <<>>]

loadDMKeys(f) ==
    IF ~f.home
    THEN [NoKeys EXCEPT !.err = "get home dir"]
    ELSE IF ~f.exists \/ ~f.readable
    THEN [NoKeys EXCEPT !.err = "read private key"]
    ELSE IF ~f.json
    THEN [NoKeys EXCEPT !.err = "parse key data"]
    ELSE LET privateKeyBytes == DecodeString(f.private_key)
             publicKeyBytes == DecodeString(f.public_key)
         IN  IF privateKeyBytes.err # ""
             THEN [NoKeys EXCEPT !.err = "decode private key"]
             ELSE IF publicKeyBytes.err # ""
             THEN [NoKeys EXCEPT !.err = "decode public key"]
             ELSE [err |-> "",
                   priv |-> CopyInto(KeySize, privateKeyBytes.bytes),
                   pub |-> CopyInto(KeySize, publicKeyBytes.bytes)]

\* saveDMKeys: the error and the key file afterwards.  os.WriteFile creates
\* a missing file with mode 0600 and keeps the mode of an existing one.
\* saveDMKeys keeping a key file that exists already
saveDMKeys_KeepExisting(f, privateKey, publicKey) ==
    IF ~f.home
    THEN [err |-> "get home dir", fs |-> f]
    ELSE IF ~f.dirOK
    THEN [err |-> "create keys directory", fs |-> f]
    ELSE IF f.exists
    THEN [err |-> "", fs |-> f]
    ELSE [err |-> "",
          fs |-> [home |-> TRUE, dirOK |-> TRUE, exists |-> TRUE,
                  readable |-> TRUE, writable |-> TRUE, json |-> TRUE,
                  private_key |-> EncodeToString(privateKey),
                  public_key |-> EncodeToString(publicKey)]]

saveDMKeys(f, privateKey, publicKey) ==
    IF ~f.home
    THEN [err |-> "get home dir", fs |-> f]
    ELSE IF ~f.dirOK
    THEN [err |-> "create keys directory", fs |-> f]
    ELSE IF f.exists /\ ~f.writable
    THEN [err |-> "write keys", fs |-> f]
    ELSE [err |-> "",
          fs |-> [home |-> TRUE, dirOK |-> TRUE, exists |-> TRUE,
                  readable |-> IF f.exists THEN f.readable ELSE TRUE,
                  writable |-> TRUE,
                  json |-> TRUE,
                  private_key |-> EncodeToString(privateKey),
                  public_key |-> EncodeToString(publicKey)]]

(***************************************************************************)
(* pkg/output/output.go: the printer.  A process record me carries the     *)
(* flags, the output written so far (out) and the requests sent (reqs).    *)
(***************************************************************************)
Line(stream, text, data) == [stream |-> stream, text |-> text, data |-> data]

\* Printer.Error
PrinterError(me, msg) ==
    IF me.flagJSON
    THEN [me EXCEPT !.out = Append(@, Line("stdout", "error", <<>>)),
                    !.err = msg]
    ELSE [me EXCEPT !.out = Append(@, Line("stderr", "error", <<>>)),
                    !.err = msg]

\* Printer.Success
PrinterSuccess(me, text, data) ==
    IF me.flagJSON \/ ~me.flagQuiet
    THEN [me EXCEPT !.out = Append(@, Line("stdout", text, data))]
    ELSE me

\* Printer.Printf and Printer.Println
PrinterPrintf(me, text, data) ==
    IF me.flagQuiet /\ ~me.flagJSON
    THEN me
    ELSE [me EXCEPT !.out = Append(@, Line("stdout", text, data))]

\* fmt.Fprintf(os.Stderr, ...)
Stderr(me, msg) ==
    [me EXCEPT !.out = Append(@, Line("stderr", "error", <<>>)), !.err = msg]

\* os.Exit(code), or the return of the Run function with code 0
Exit(me, code) == [me EXCEPT !.pc = "done", !.exit = code]

(***************************************************************************)
(* pkg/client/client.go: requests of the DM endpoints                      *)
(***************************************************************************)
Request(op, handle, content, publicKey) ==
    [op |-> op, handle |-> handle, content |-> content,
     public_key |-> publicKey]

\* Client.GetDMKey
GetDMKey(me, handle) ==
    [me EXCEPT !.reqs = Append(@, Request("GetDMKey", handle, <<>>, <<>>))]

\* Client.SendDM
SendDM(me, handle, content) ==
    [me EXCEPT !.reqs = Append(@, Request("SendDM", handle, content, <<>>))]

\* Client.RegisterDMKey
RegisterDMKey(me, publicKey) ==
    [me EXCEPT !.reqs = Append(@, Request("RegisterDMKey", "", <<>>, publicKey))]

\* Client.ListDMs
ListDMs(me) ==
    [me EXCEPT !.reqs = Append(@, Request("ListDMs", "", <<>>, <<>>))]

(***************************************************************************)
(* cmd/mesh/dm.go: the `dm` send command, one operator per step.  Each     *)
(* takes the process record and returns the record after the step.         *)
(***************************************************************************)
\* strings.TrimSpace, with 32 the only white-space byte of the model
RECURSIVE TrimSpace(_)
TrimSpace(s) ==
    IF s = <<>> THEN s
    ELSE IF s[1] = 32 THEN TrimSpace(Tail(s))
    ELSE IF s[Len(s)] = 32 THEN TrimSpace(SubSeq(s, 1, Len(s) - 1))
    ELSE s

\* lines 25-52: read the arguments, reject an empty message
dmCmdArgs(me, text) ==
    LET content == TrimSpace(text)
    IN  IF content = <<>>
        THEN Exit(Stderr(me, "message content cannot be empty"), 1)
        ELSE [me EXCEPT !.content = content, !.pc = "send_load"]

\* loadOrGenerateDMKeys, lines 259-262: return the stored keys if they load
loadOrGenerateLoad(me, f) ==
    LET r == loadDMKeys(f)
    IN  IF r.err = ""
        THEN [me EXCEPT !.privateKey = r.priv, !.publicKey = r.pub,
                        !.keysFrom = "file", !.pc = "send_getkey"]
        ELSE [me EXCEPT !.pc = "send_gen"]

\* loadOrGenerateDMKeys, lines 265-268, and the caller's lines 60-63
loadOrGenerateGen(me, rnd) ==
    LET k == GenerateKey(rnd)
    IN  IF k.err # ""
        THEN Exit(PrinterError(me, "key management"), 1)
        ELSE [me EXCEPT !.privateKey = k.priv, !.publicKey = k.pub,
                        !.pc = "send_save"]

\* loadOrGenerateDMKeys returning the new pair although saving it failed
loadOrGenerateSave_IgnoreError(me, saved) ==
    [me EXCEPT !.keysFrom = "generated", !.pc = "send_getkey"]

\* loadOrGenerateDMKeys, lines 270-274, and the caller's lines 60-63
loadOrGenerateSave(me, saved) ==
    IF saved.err # ""
    THEN Exit(PrinterError([me EXCEPT !.privateKey = <<>>,
                                     !.publicKey = <<>>],
                           "key management"), 1)
    ELSE [me EXCEPT !.keysFrom = "generated", !.pc = "send_getkey"]

\* the fetch of the recipient's key going on after an error
dmCmdGetKey_IgnoreError(me, resp) ==
    [GetDMKey(me, "bob") EXCEPT
        !.recipientKey = IF resp.err # "" THEN EncodeToString(me.publicKey)
                         ELSE resp.public_key,
        !.pc = "send_encrypt"]

\* lines 66-70: resp is the response to GetDMKey
dmCmdGetKey(me, resp) ==
    LET sent == GetDMKey(me, "bob")
    IN  IF resp.err # ""
        THEN Exit(PrinterError(sent, "failed to get recipient key"), 1)
        ELSE [sent EXCEPT !.recipientKey = resp.public_key,
                          !.pc = "send_encrypt"]

\* the encryption step falling back to the plain message when encryptMessage
\* fails
dmCmdEncrypt_Fallback(me, rnd) ==
    LET recipientPubKey == decodePublicKey(me.recipientKey)
    IN  IF recipientPubKey.err # ""
        THEN Exit(PrinterError(me, "invalid recipient key"), 1)
        ELSE LET enc == encryptMessage(me.content, me.privateKey,
                                       recipientPubKey.key, rnd)
             IN  [me EXCEPT !.recipientPubKey = recipientPubKey.key,
                            !.encryptedContent =
                                IF enc.err # "" THEN me.content ELSE enc.val,
                            !.pc = "send_post"]

\* lines 73-84: decode the recipient's key and encrypt the message
dmCmdEncrypt(me, rnd) ==
    LET recipientPubKey == decodePublicKey(me.recipientKey)
    IN  IF recipientPubKey.err # ""
        THEN Exit(PrinterError(me, "invalid recipient key"), 1)
        ELSE LET enc == encryptMessage(me.content, me.privateKey,
                                       recipientPubKey.key, rnd)
             IN  IF enc.err # ""
                 THEN Exit(PrinterError(
                              [me EXCEPT !.recipientPubKey = recipientPubKey.key],
                              "encryption failed"), 1)
                 ELSE [me EXCEPT !.recipientPubKey = recipientPubKey.key,
                                 !.encryptedContent = enc.val,
                                 !.pc = "send_post"]

\* the send step registering the own key before it creates the message
dmCmdSend_RegisterFirst(me, resp) ==
    LET sent == SendDM(RegisterDMKey(me, EncodeToString(me.publicKey)),
                       "bob", me.encryptedContent)
    IN  IF resp.err # ""
        THEN Exit(PrinterError(sent, "send"), 1)
        ELSE [sent EXCEPT !.pc = "send_register"]

\* lines 87-103: send the message and report it; resp is the response
dmCmdSend(me, resp) ==
    LET sent == SendDM(me, "bob", me.encryptedContent)
    IN  IF resp.err # ""
        THEN Exit(PrinterError(sent, "send"), 1)
        ELSE LET shown == IF me.flagJSON
                          THEN PrinterSuccess(sent, "dm", me.encryptedContent)
                          ELSE IF ~me.flagQuiet
                          THEN PrinterPrintf(sent, "Sent DM", resp.id)
                          ELSE sent
             IN  [shown EXCEPT !.pc = "send_register"]

\* registerDMKeyIfNeeded and line 106: the error is dropped
registerDMKeyIfNeeded(me) ==
    Exit(RegisterDMKey(me, EncodeToString(me.publicKey)), 0)

\* line 106 with a registration error made fatal
dmCmdRegister_Fatal(me, resp) ==
    IF resp.err # ""
    THEN Exit(PrinterError(
                  [RegisterDMKey(me, EncodeToString(me.publicKey))
                      EXCEPT !.regErr = resp.err],
                  "failed to register key"), 1)
    ELSE registerDMKeyIfNeeded(me)

\* line 106: `_ = registerDMKeyIfNeeded(c, publicKey)`; resp is the response
\* to RegisterDMKey, regErr the error that is assigned to the blank
\* identifier
dmCmdRegister(me, resp) ==
    [registerDMKeyIfNeeded(me) EXCEPT !.regErr = resp.err]

(***************************************************************************)
(* cmd/mesh/dm.go: `dm key init`                                           *)
(***************************************************************************)
\* the check without the test for existing keys
dmKeyInitCheck_NoCheck(me, f) == [me EXCEPT !.pc = "init_gen"]

\* lines 185-194
dmKeyInitCheck(me, f) ==
    IF ~me.force /\ loadDMKeys(f).err = ""
    THEN Exit(Stderr(me, "DM keys already exist"), 1)
    ELSE [me EXCEPT !.pc = "init_gen"]

\* lines 199-203
dmKeyInitGen(me, rnd) ==
    LET k == GenerateKey(rnd)
    IN  IF k.err # ""
        THEN Exit(PrinterError(me, "key generation failed"), 1)
        ELSE [me EXCEPT !.privateKey = k.priv, !.publicKey = k.pub,
                        !.pc = "init_save"]

\* `dm key init` going on to the registration after a failed save
dmKeyInitSave_IgnoreError(me, saved) ==
    [me EXCEPT !.keysFrom = "generated", !.pc = "init_register"]

\* lines 206-209
dmKeyInitSave(me, saved) ==
    IF saved.err # ""
    THEN Exit(PrinterError(me, "failed to save keys"), 1)
    ELSE [me EXCEPT !.keysFrom = "generated", !.pc = "init_register"]

\* lines 213-231: resp is the response to RegisterDMKey
dmKeyInitRegister(me, resp) ==
    LET pubKeyB64 == EncodeToString(me.publicKey)
        sent == RegisterDMKey(me, pubKeyB64)
    IN  IF resp.err # ""
        THEN Exit(PrinterError(sent, "failed to register key"), 1)
        ELSE IF me.flagJSON
        THEN Exit(PrinterSuccess(sent, "key", resp.public_key), 0)
        ELSE IF ~me.flagQuiet
        THEN Exit(PrinterPrintf(
                      PrinterPrintf(sent, "DM encryption key initialized", <<>>),
                      "Public key", SubSeq(pubKeyB64, 1, 16)), 0)
        ELSE Exit(sent, 0)

(***************************************************************************)
(* cmd/mesh/dm.go: `dm key show`                                           *)
(***************************************************************************)
dmKeyShow(me, f) ==
    LET r == loadDMKeys(f)
    IN  IF r.err # ""
        THEN Exit(PrinterError(me, "no DM keys found"), 1)
        ELSE LET loaded == [me EXCEPT !.privateKey = r.priv,
                                      !.publicKey = r.pub,
                                      !.keysFrom = "file"]
                 pubKeyB64 == EncodeToString(r.pub)
             IN  IF me.flagJSON
                 THEN Exit(PrinterSuccess(loaded, "public_key", pubKeyB64), 0)
                 ELSE Exit(PrinterPrintf(loaded, "Public key", pubKeyB64), 0)

(***************************************************************************)
(* cmd/mesh/dm.go: `dm ls`                                                 *)
(***************************************************************************)
\* renderDM
renderDM(me, dm, decryptedContent) ==
    IF me.flagJSON
    THEN PrinterPrintf(me, "dm", dm.content)
    ELSE PrinterPrintf(me, "dm line", decryptedContent)

\* for _, dm := range dms { renderDM(out, dm, "[Encrypted]") }
RECURSIVE renderAll(_, _, _)
renderAll(me, dms, decryptedContent) ==
    IF dms = <<>> THEN me
    ELSE renderAll(renderDM(me, Head(dms), decryptedContent), Tail(dms),
                   decryptedContent)

\* the message records of a list as they appear in its JSON rendering
RECURSIVE Contents(_)
Contents(dms) ==
    IF dms = <<>> THEN <<>> ELSE Head(dms).content \o Contents(Tail(dms))

\* lines 119-130: resp is the response to ListDMs
dmLsList(me, resp) ==
    LET sent == ListDMs(me)
    IN  IF resp.err # ""
        THEN Exit(PrinterError(sent, "list"), 1)
        ELSE IF resp.dms = <<>>
        THEN Exit(IF ~me.flagQuiet THEN PrinterPrintf(sent, "No DMs", <<>>)
                  ELSE sent, 0)
        ELSE [sent EXCEPT !.dms = resp.dms, !.pc = "ls_render"]

\* the placeholder shown for a message that is not decrypted
Placeholder == <<91, 69, 110, 99, 114, 121, 112, 116, 101, 100, 93>>

\* the listing failing when the keys do not load
dmLsRender_FailWithoutKeys(me, f) ==
    IF loadDMKeys(f).err # ""
    THEN Exit(PrinterError(me, "no DM keys found"), 1)
    ELSE IF me.flagJSON
         THEN Exit(PrinterSuccess(me, "dms", Contents(me.dms)), 0)
         ELSE Exit(renderAll(me, me.dms, Placeholder), 0)

\* lines 133-170: with or without keys every message is shown as the
\* placeholder (human) or as the record received (JSON)
dmLsRender(me, f) ==
    IF loadDMKeys(f).err # ""
    THEN IF me.flagJSON
         THEN Exit(PrinterSuccess(me, "dms", Contents(me.dms)), 0)
         ELSE Exit(renderAll(me, me.dms, Placeholder), 0)
    ELSE IF me.flagJSON
         THEN Exit(PrinterSuccess(me, "dms", Contents(me.dms)), 0)
         ELSE Exit(renderAll(me, me.dms, Placeholder), 0)

(***************************************************************************)
(* cmd/mesh/dm.go and the session package: where the files are.  root is   *)
(* the value of MSH_CONFIG_DIR, Unset when the variable is not set.        *)
(***************************************************************************)
Unset == ""
HomeDir == "~"

\* session.getSessionDir: the config root of an invocation
getSessionDir(root) == IF root # Unset THEN root ELSE HomeDir \o "/.msh"

\* loadDMKeys lines 278-283 and saveDMKeys lines 319-329:
\* filepath.Join(homeDir, ".msh", "keys", "dm_private.key"), whatever the
\* environment holds
dmKeyPath(root) == <<HomeDir \o "/.msh", "keys", "dm_private.key">>

(***************************************************************************)
(* pkg/mcp/auth.go: AuthState                                              *)
(***************************************************************************)
NilUser == [nil |-> TRUE, handle |-> ""]
User(handle) == [nil |-> FALSE, handle |-> handle]

\* client.New(apiURL) and client.New(apiURL, client.WithToken(token))
NewClient(token) == [nil |-> FALSE, token |-> token]

\* NewAuthState: envToken is the value of MSH_TOKEN
NewAuthState(envToken) ==
    [token |-> envToken, user |-> NilUser, client |-> NewClient(envToken)]

IsAuthenticated(a) == a.token # ""
GetToken(a) == a.token
GetUser(a) == a.user
GetClient(a) == a.client

SetAuth(a, token, user) ==
    [token |-> token, user |-> user, client |-> NewClient(token)]

\* Clear leaving the user in place
Clear_KeepsUser(a) == [token |-> "", user |-> a.user, client |-> NewClient("")]

Clear(a) == [token |-> "", user |-> NilUser, client |-> NewClient("")]

(***************************************************************************)
(* pkg/mcp/auth.go: validateKeyPath.  A path is a string, a sequence of    *)
(* characters; directory and file names are shortened to a few letters.    *)
(***************************************************************************)
Slash == "/"

\* the names between the separators of a path, empty names included
RECURSIVE SplitPath(_)
SplitPath(str) ==
    IF str = <<>> THEN <<<<>>>>
    ELSE LET rest == SplitPath(Tail(str))
         IN  IF Head(str) = Slash THEN <<<<>>>> \o rest
             ELSE <<<<Head(str)>> \o Head(rest)>> \o Tail(rest)

\* the absolute path of a sequence of names
RECURSIVE JoinRooted(_)
JoinRooted(names) ==
    IF names = <<>> THEN <<>>
    ELSE <<Slash>> \o Head(names) \o JoinRooted(Tail(names))

\* filepath.Clean on the names of an absolute path: empty names and "." are
\* dropped, ".." removes the name before it and is dropped at the root
RECURSIVE CleanNames(_, _)
CleanNames(names, acc) ==
    IF names = <<>> THEN acc
    ELSE LET name == Head(names)
         IN  IF name = <<>> \/ name = <<".">>
             THEN CleanNames(Tail(names), acc)
             ELSE IF name = <<".", ".">>
             THEN CleanNames(Tail(names),
                             IF acc = <<>> THEN acc
                             ELSE SubSeq(acc, 1, Len(acc) - 1))
             ELSE CleanNames(Tail(names), Append(acc, name))

\* filepath.Clean of an absolute path
Clean(path) ==
    LET names == CleanNames(SplitPath(path), <<>>)
    IN  IF names = <<>> THEN <<Slash>> ELSE JoinRooted(names)

\* filepath.Abs in the working directory cwd
Abs(cwd, path) ==
    IF path # <<>> /\ Head(path) = Slash THEN Clean(path)
    ELSE Clean(cwd \o <<Slash>> \o path)

\* strings.HasPrefix
HasPrefix(str, prefix) ==
    /\ Len(str) >= Len(prefix)
    /\ SubSeq(str, 1, Len(prefix)) = prefix

\* the home directory and ~/.ssh as paths
HomePath == <<Slash, "h">>
SshDir == HomePath \o <<Slash, ".", "s">>

\* validateKeyPath: configDir is the value of MSH_CONFIG_DIR, <<>> when it
\* is not set, cwd the working directory, exists the outcome of os.Stat on
\* the resolved path
validateKeyPath(keyPath, configDir, cwd, exists) ==
    LET allowedDirs == {SshDir} \cup (IF configDir # <<>> THEN {configDir} ELSE {})
        resolved == Clean(Abs(cwd, keyPath))
        allowed == \E dir \in allowedDirs : HasPrefix(resolved, Abs(cwd, dir))
    IN  IF ~allowed THEN [err |-> "invalid key path", path |-> <<>>]
        ELSE IF ~exists
        THEN [err |-> "SSH key not found", path |-> <<>>]
        ELSE [err |-> "", path |-> resolved]

(***************************************************************************)
(* pkg/session: the session cache.  mem is the pair of package variables   *)
(* globalSess and lastConfigDir, files the session file of each directory, *)
(* env the value of MSH_CONFIG_DIR and t the time of the call.             *)
(***************************************************************************)
NilSession == [nil |-> TRUE, token |-> "", hasExpiry |-> FALSE, expiresAt |-> 0]

\* sess.ExpiresAt != nil && time.Now().After(*sess.ExpiresAt)
SessionExpired(sess, t) == sess.hasExpiry /\ t > sess.expiresAt

sessionLoad(mem, files, env, t) ==
    LET mshDir == getSessionDir(env)
        cached == IF mem.lastConfigDir # "" /\ mem.lastConfigDir # mshDir
                  THEN NilSession ELSE mem.globalSess
        kept == [globalSess |-> cached, lastConfigDir |-> mshDir]
        file == files[mshDir]
    IN  IF ~cached.nil THEN [mem |-> kept, sess |-> cached, err |-> ""]
        ELSE IF file.nil
        THEN [mem |-> kept, sess |-> NilSession, err |-> "no active session"]
        ELSE IF SessionExpired(file, t)
        THEN [mem |-> kept, sess |-> NilSession, err |-> "session expired"]
        ELSE [mem |-> [kept EXCEPT !.globalSess = file], sess |-> file,
              err |-> ""]

\* written tells whether os.WriteFile succeeds
sessionSave(mem, files, env, sess, written) ==
    LET mshDir == getSessionDir(env)
    IN  IF ~written
        THEN [mem |-> mem, files |-> files, err |-> "write session file"]
        ELSE [mem |-> [mem EXCEPT !.globalSess = sess],
              files |-> [files EXCEPT ![mshDir] = sess], err |-> ""]

\* removed tells whether os.Remove succeeds
sessionClear(mem, files, env, removed) ==
    LET mshDir == getSessionDir(env)
    IN  IF ~files[mshDir].nil /\ ~removed
        THEN [mem |-> mem, files |-> files, err |-> "remove session file"]
        ELSE [mem |-> [mem EXCEPT !.globalSess = NilSession],
              files |-> [files EXCEPT ![mshDir] = NilSession], err |-> ""]

sessionIsAuthenticated(mem, t) ==
    IF mem.globalSess.nil THEN FALSE
    ELSE IF SessionExpired(mem.globalSess, t) THEN FALSE
    ELSE TRUE

sessionGetToken(mem) ==
    IF mem.globalSess.nil THEN "" ELSE mem.globalSess.token

(***************************************************************************)
(* pkg/context: the "this" context.  mem is the package variable           *)
(* globalCtx, file the content of ~/.msh/context.json, t the time of the   *)
(* call.  Time is counted in ticks of one hour.                            *)
(***************************************************************************)
ContextTTL == 1

NilContext == [nil |-> TRUE, id |-> "", typ |-> "", at |-> 0]

\* time.Since(ctx.UpdatedAt) > ContextTTL
ContextExpired(ctx, t) == t - ctx.at > ContextTTL

\* Load with a cache that is never checked for expiry
contextLoad_CacheNeverExpires(mem, file, t) ==
    IF ~mem.nil THEN [mem |-> mem, ctx |-> mem, err |-> ""]
    ELSE IF file.nil
    THEN [mem |-> NilContext, ctx |-> NilContext, err |-> "no context available"]
    ELSE IF ContextExpired(file, t)
    THEN [mem |-> NilContext, ctx |-> NilContext, err |-> "context expired"]
    ELSE [mem |-> file, ctx |-> file, err |-> ""]

contextLoad(mem, file, t) ==
    IF ~mem.nil /\ ~ContextExpired(mem, t)
    THEN [mem |-> mem, ctx |-> mem, err |-> ""]
    ELSE IF file.nil
    THEN [mem |-> NilContext, ctx |-> NilContext, err |-> "no context available"]
    ELSE IF ContextExpired(file, t)
    THEN [mem |-> NilContext, ctx |-> NilContext, err |-> "context expired"]
    ELSE [mem |-> file, ctx |-> file, err |-> ""]

\* written tells whether os.WriteFile succeeds
contextSave(mem, file, ctx, written) ==
    IF ~written THEN [mem |-> mem, file |-> file, err |-> "write context file"]
    ELSE [mem |-> ctx, file |-> ctx, err |-> ""]

\* removed tells whether os.Remove succeeds
contextClear(mem, file, removed) ==
    IF ~file.nil /\ ~removed
    THEN [mem |-> mem, file |-> file, err |-> "remove context file"]
    ELSE [mem |-> NilContext, file |-> NilContext, err |-> ""]

contextSet(mem, file, id, typ, t, written) ==
    contextSave(mem, file, [nil |-> FALSE, id |-> id, typ |-> typ, at |-> t],
                written)

\* Get and GetID
contextGetID(mem, file, t) ==
    LET r == contextLoad(mem, file, t)
    IN  [mem |-> r.mem, id |-> r.ctx.id, err |-> r.err]

ResolveTarget(mem, file, target, t) ==
    IF target = "this"
    THEN LET r == contextGetID(mem, file, t)
         IN  IF r.err # ""
             THEN [mem |-> r.mem, id |-> "", fromContext |-> FALSE,
                   err |-> "no context available: use an explicit ID"]
             ELSE [mem |-> r.mem, id |-> r.id, fromContext |-> TRUE,
                   err |-> ""]
    ELSE [mem |-> mem, id |-> target, fromContext |-> FALSE, err |-> ""]

(***************************************************************************)
(* pkg/mcp/handlers.go: the write handlers.  args is the argument map of   *)
(* the tool call, resp the response of the service to the request the      *)
(* handler makes, if it makes one.  A handler returns its tool result and  *)
(* the requests it issued.                                                 *)
(***************************************************************************)
\* values of an argument: absent, a number, a string (a sequence of
\* characters)
NoArg == [type |-> "none", str |-> <<>>]
NumArg == [type |-> "number", str |-> <<>>]
StrArg(str) == [type |-> "string", str |-> str]

\* req.RequireString(key)
RequireString(args, key) ==
    IF args[key].type = "string"
    THEN [err |-> "", str |-> args[key].str]
    ELSE [err |-> "required argument not found or not a string", str |-> <<>>]

\* strings.TrimPrefix(s, "@")
TrimPrefixAt(str) ==
    IF str # <<>> /\ Head(str) = "@" THEN Tail(str) ELSE str

NewToolResultError(text) == [isError |-> TRUE, text |-> text]
NewToolResultErrorFromErr(text, err) == [isError |-> TRUE, text |-> text]
NewToolResultText(text) == [isError |-> FALSE, text |-> text]

NotAuthenticated ==
    [res |-> NewToolResultError("Not authenticated. Use mesh_login first."),
     calls |-> <<>>]

Missing(text) == [res |-> NewToolResultError(text), calls |-> <<>>]

\* a request of the client c: doRequest(method, path, body) with the
\* client's token
ApiCall(c, method, path, arg, body) ==
    [method |-> method, path |-> path, arg |-> arg, body |-> body,
     token |-> c.token]

\* the handler's return after its request: failText on an error response
Called(call, resp, failText, okText) ==
    [res |-> IF resp.err # "" THEN NewToolResultErrorFromErr(failText, resp.err)
             ELSE NewToolResultText(okText),
     calls |-> <<call>>]

\* HandleStatus reporting the expired session without clearing the state
HandleStatus_NoClear(a, resp) ==
    LET call == ApiCall(GetClient(a), "GET", "/v1/auth/status", <<>>, <<>>)
    IN  IF ~IsAuthenticated(a)
        THEN [res |-> NewToolResultText("Not authenticated"), calls |-> <<>>,
              auth |-> a]
        ELSE IF resp.err # ""
        THEN [res |-> NewToolResultText("Session expired"),
              calls |-> <<call>>, auth |-> a]
        ELSE [res |-> NewToolResultText("Authenticated as"),
              calls |-> <<call>>, auth |-> a]

\* HandleStatus: resp is the response to GetStatus; the handler returns its
\* tool result, the requests it issued and the AuthState it leaves
HandleStatus(a, resp) ==
    LET call == ApiCall(GetClient(a), "GET", "/v1/auth/status", <<>>, <<>>)
    IN  IF ~IsAuthenticated(a)
        THEN [res |-> NewToolResultText("Not authenticated"), calls |-> <<>>,
              auth |-> a]
        ELSE IF resp.err # ""
        THEN [res |-> NewToolResultText("Session expired"),
              calls |-> <<call>>, auth |-> Clear(a)]
        ELSE [res |-> NewToolResultText("Authenticated as"),
              calls |-> <<call>>, auth |-> a]

HandlePost(a, args, resp) ==
    LET content == RequireString(args, "content")
    IN  IF ~IsAuthenticated(a) THEN NotAuthenticated
        ELSE IF content.err # "" THEN Missing("content is required")
        ELSE Called(ApiCall(GetClient(a), "POST", "/v1/posts", <<>>,
                            [content |-> content.str, reply_to |-> <<>>]),
                    resp, "Failed to create post", "Posted successfully!")

HandleReply(a, args, resp) ==
    LET postID == RequireString(args, "post_id")
        content == RequireString(args, "content")
    IN  IF ~IsAuthenticated(a) THEN NotAuthenticated
        ELSE IF postID.err # "" THEN Missing("post_id is required")
        ELSE IF content.err # "" THEN Missing("content is required")
        ELSE Called(ApiCall(GetClient(a), "POST", "/v1/posts", <<>>,
                            [content |-> content.str, reply_to |-> postID.str]),
                    resp, "Failed to create reply", "Replied")

HandleFollow(a, args, resp) ==
    LET handle == RequireString(args, "handle")
    IN  IF ~IsAuthenticated(a) THEN NotAuthenticated
        ELSE IF handle.err # "" THEN Missing("handle is required")
        ELSE Called(ApiCall(GetClient(a), "POST", "/v1/users/%s/follow",
                            TrimPrefixAt(handle.str), <<>>),
                    resp, "Failed to follow user", "Now following")

HandleUnfollow(a, args, resp) ==
    LET handle == RequireString(args, "handle")
    IN  IF ~IsAuthenticated(a) THEN NotAuthenticated
        ELSE IF handle.err # "" THEN Missing("handle is required")
        ELSE Called(ApiCall(GetClient(a), "DELETE", "/v1/users/%s/follow",
                            TrimPrefixAt(handle.str), <<>>),
                    resp, "Failed to unfollow user", "Unfollowed")

\* HandleLike without the test of IsAuthenticated
HandleLike_NoAuthCheck(a, args, resp) ==
    LET postID == RequireString(args, "post_id")
    IN  IF postID.err # "" THEN Missing("post_id is required")
        ELSE Called(ApiCall(GetClient(a), "POST", "/v1/posts/%s/like",
                            postID.str, <<>>),
                    resp, "Failed to like post", "Liked")

HandleLike(a, args, resp) ==
    LET postID == RequireString(args, "post_id")
    IN  IF ~IsAuthenticated(a) THEN NotAuthenticated
        ELSE IF postID.err # "" THEN Missing("post_id is required")
        ELSE Called(ApiCall(GetClient(a), "POST", "/v1/posts/%s/like",
                            postID.str, <<>>),
                    resp, "Failed to like post", "Liked")

HandleUnlike(a, args, resp) ==
    LET postID == RequireString(args, "post_id")
    IN  IF ~IsAuthenticated(a) THEN NotAuthenticated
        ELSE IF postID.err # "" THEN Missing("post_id is required")
        ELSE Called(ApiCall(GetClient(a), "DELETE", "/v1/posts/%s/like",
                            postID.str, <<>>),
                    resp, "Failed to unlike post", "Unliked")

(***************************************************************************)
(* State                                                                   *)
(***************************************************************************)
VARIABLES
    rng,        \* number of reads of rand.Reader made so far
    labPlain,   \* cipher harness: the plaintext P
    labA,       \* cipher harness: key pair of the sender
    labB,       \* cipher harness: current key pair of the recipient
    labEncs,    \* cipher harness: the envelopes produced so far
    labDec,     \* cipher harness: the last decryptMessage call and its result
    fs,         \* the key file
    proc,       \* the command each process runs, its locals and its position
    registered, \* the public key the directory service holds for the user
    lastRet,    \* the key pair loadOrGenerateDMKeys returned last
    rendered,   \* rendering harness: the errors rendered so far
    disk,       \* path harness: the key file at each path
    keyOwner,   \* path harness: the config root whose invocation wrote it
    inv,        \* path harness: the last invocation and what it touched
    auth,       \* MCP server: the AuthState
    apiCalls,   \* MCP server: the requests issued to the service
    toolResult, \* MCP server: the last tool call and its result
    keyPathCall, \* key path harness: the last validateKeyPath call
    now,        \* the clock, in ticks
    sessMem,    \* session package: globalSess and lastConfigDir
    sessDisk,   \* session package: the session file of each config directory
    envDir,     \* session package: the value of MSH_CONFIG_DIR
    sessLoaded, \* session package: the last call of Load and its result
    ctxMem,     \* context package: globalCtx
    ctxDisk,    \* context package: the context file
    ctxResolved, \* context package: the last ResolveTarget call and its result
    lastSet,    \* context package: the context of the last Set that succeeded
    mu,         \* AuthState.mu: the holders of the read-write lock
    gor,        \* the goroutines using the AuthState: position and observation
    committed   \* the AuthState as the last complete SetAuth or Clear left it

labVars == <<labPlain, labA, labB, labEncs, labDec>>
cmdVars == <<fs, proc, registered, lastRet>>
pathVars == <<disk, keyOwner, inv>>
mcpVars == <<auth, apiCalls, toolResult>>
sessVars == <<sessMem, sessDisk, envDir, sessLoaded>>
ctxVars == <<ctxMem, ctxDisk, ctxResolved, lastSet>>
concVars == <<mu, gor, committed>>
lateVars == <<keyPathCall, now, sessVars, ctxVars, concVars>>
auxVars == <<rendered, disk, keyOwner, inv, auth, apiCalls, toolResult,
             lateVars>>
vars == <<rng, labPlain, labA, labB, labEncs, labDec, fs, proc, registered,
          lastRet, rendered, disk, keyOwner, inv, auth, apiCalls, toolResult,
          keyPathCall, now, sessMem, sessDisk, envDir, sessLoaded, ctxMem,
          ctxDisk, ctxResolved, lastSet, mu, gor, committed>>
oldVars == <<rng, labVars, cmdVars, rendered, pathVars, mcpVars>>

(***************************************************************************)
(* Commands.  Every invocation of the tool is a process that runs one      *)
(* command and exits; the next invocation starts after it.                 *)
(***************************************************************************)
Procs == {1, 2}

KeyOfSeed(d) ==
    LET k == GenerateKey(ReadRand(d, KeySize))
    IN  [priv |-> k.priv, pub |-> k.pub]

\* the key pair stored before the behaviour starts, and the recipient's
StoredKey == KeyOfSeed(13)
BobKey == KeyOfSeed(14)

ProcIdle ==
    [pc |-> "idle", cmd |-> "none", force |-> FALSE, flagJSON |-> FALSE,
     flagQuiet |-> FALSE, content |-> <<>>, privateKey |-> <<>>,
     publicKey |-> <<>>, keysFrom |-> "none", recipientKey |-> <<>>,
     recipientPubKey |-> <<>>, encryptedContent |-> <<>>, dms |-> <<>>,
     exit |-> -1, err |-> "", regErr |-> "", reqs |-> <<>>, out |-> <<>>]

KeyFile(home, dirOK, exists, readable, writable, json, priv, pub) ==
    [home |-> home, dirOK |-> dirOK, exists |-> exists,
     readable |-> readable, writable |-> writable, json |-> json,
     private_key |-> priv, public_key |-> pub]

StoredPriv == EncodeToString(StoredKey.priv)
StoredPub == EncodeToString(StoredKey.pub)

\* the key files a command may find
KeyFiles ==
    { KeyFile(TRUE, TRUE, FALSE, FALSE, FALSE, FALSE, <<>>, <<>>),     \* absent
      KeyFile(FALSE, FALSE, FALSE, FALSE, FALSE, FALSE, <<>>, <<>>),   \* no home
      KeyFile(TRUE, FALSE, FALSE, FALSE, FALSE, FALSE, <<>>, <<>>),    \* no dir
      KeyFile(TRUE, TRUE, TRUE, TRUE, TRUE, TRUE, StoredPriv, StoredPub),
      KeyFile(TRUE, TRUE, TRUE, FALSE, TRUE, TRUE, StoredPriv, StoredPub),
      KeyFile(TRUE, TRUE, TRUE, TRUE, FALSE, TRUE, StoredPriv, StoredPub),
      KeyFile(TRUE, TRUE, TRUE, TRUE, TRUE, FALSE, <<>>, <<>>),        \* not JSON
      KeyFile(TRUE, TRUE, TRUE, TRUE, TRUE, TRUE, <<>>, <<>>),         \* {}
      KeyFile(TRUE, TRUE, TRUE, TRUE, TRUE, TRUE,
              <<BadChar, 0, 0, 0>>, StoredPub),                       \* not base64
      KeyFile(TRUE, TRUE, TRUE, TRUE, TRUE, TRUE,
              EncodeToString(SubSeq(StoredKey.priv, 1, 31)), StoredPub),
      KeyFile(TRUE, TRUE, TRUE, TRUE, TRUE, TRUE,
              StoredPriv, EncodeToString(Append(StoredKey.pub, 7))) }

\* the cipher harness at rest
NoDec == [kind |-> "none", idx |-> 0, input |-> <<>>, priv |-> <<>>,
          pub |-> <<>>, res |-> [err |-> "", val |-> <<>>]]

LabIdle ==
    /\ labPlain = <<>>
    /\ labA = KeyOfSeed(13)
    /\ labB = KeyOfSeed(14)
    /\ labEncs = <<>>
    /\ labDec = NoDec

CmdIdle ==
    /\ fs = KeyFile(TRUE, TRUE, FALSE, FALSE, FALSE, FALSE, <<>>, <<>>)
    /\ proc = [p \in Procs |-> ProcIdle]
    /\ registered = <<>>
    /\ lastRet = <<>>

\* the config roots of the invocations and the key file paths under them
ConfigRoots == {Unset, "/agents/a", "/agents/b"}
KeyPaths == {<<getSessionDir(root), "keys", "dm_private.key">> :
                root \in ConfigRoots}

NoInv == [op |-> "none", root |-> Unset, path |-> <<>>, pair |-> NoKeys,
          from |-> "nobody"]

ArgNames == {"content", "post_id", "handle"}

NoTool == [tool |-> "none", authed |-> FALSE, complete |-> FALSE,
           res |-> NewToolResultText(""), calls |-> <<>>]

RenderIdle == rendered = {}

PathIdle ==
    /\ disk = [path \in KeyPaths |->
                 KeyFile(TRUE, TRUE, FALSE, FALSE, FALSE, FALSE, <<>>, <<>>)]
    /\ keyOwner = [path \in KeyPaths |-> "nobody"]
    /\ inv = NoInv

McpIdle ==
    /\ auth = NewAuthState("")
    /\ apiCalls = <<>>
    /\ toolResult = NoTool

NoKeyPathCall == [op |-> "none", keyPath |-> <<>>, configDir |-> <<>>,
                  exists |-> FALSE, res |-> [err |-> "", path |-> <<>>]]

NoSession == NilSession
NoLoad == [op |-> "none", env |-> Unset, err |-> "", sess |-> NoSession]
NoContext == NilContext
NoLastSet == [ctx |-> NoContext, prev |-> ""]
NoResolve == [target |-> "", id |-> "", fromContext |-> FALSE, err |-> ""]

SessIdle ==
    /\ sessMem = [globalSess |-> NoSession, lastConfigDir |-> ""]
    /\ sessDisk = [dir \in {getSessionDir(root) : root \in ConfigRoots} |->
                     NoSession]
    /\ envDir = Unset
    /\ sessLoaded = NoLoad

CtxIdle ==
    /\ ctxMem = NoContext
    /\ ctxDisk = NoContext
    /\ ctxResolved = NoResolve
    /\ lastSet = NoLastSet

Writer == 0
NumReaders == 2
Readers == 1..NumReaders
Goroutines == {Writer} \cup Readers

NoObs == [has |-> FALSE, val |-> FALSE]
Unlocked == [writer |-> FALSE, pending |-> FALSE, readers |-> {}]

\* no goroutine has been started
ConcIdle ==
    /\ mu = Unlocked
    /\ gor = [g \in Goroutines |->
                [pc |-> "done", iter |-> 0, op |-> 0, obs |-> NoObs]]
    /\ committed = NewAuthState("")

LateIdle ==
    /\ keyPathCall = NoKeyPathCall /\ now = 0 /\ SessIdle /\ CtxIdle
    /\ ConcIdle

AuxIdle == RenderIdle /\ PathIdle /\ McpIdle /\ LateIdle

CmdInit ==
    /\ rng = 0
    /\ fs \in KeyFiles
    /\ proc = [p \in Procs |-> ProcIdle]
    /\ registered \in {<<>>, StoredPub}
    /\ lastRet = <<>>

\* the texts given to `dm`: as long as the bound allows, with white space
RECURSIVE SeqsOfLen(_, _)
SeqsOfLen(S, n) ==
    IF n = 0 THEN {<<>>}
    ELSE {Append(s, b) : s \in SeqsOfLen(S, n - 1), b \in S}

SendTexts == SeqsOfLen({32, 104}, MaxMsgLen)

\* responses of the service
KeyResponses ==
    { [err |-> "not found", public_key |-> <<>>],
      [err |-> "execute request", public_key |-> <<>>],
      [err |-> "request failed with status 500", public_key |-> <<>>],
      [err |-> "", public_key |-> EncodeToString(BobKey.pub)],
      [err |-> "", public_key |-> EncodeToString(SubSeq(BobKey.pub, 1, 3))],
      [err |-> "", public_key |-> EncodeToString(Append(BobKey.pub, 7))],
      [err |-> "", public_key |-> <<>>],
      [err |-> "", public_key |-> <<BadChar, 1, 2, 3>>] }
SendResponses ==
    { [err |-> "request failed", id |-> <<>>], [err |-> "", id |-> <<100, 109>>] }
DM(id, content) == [id |-> id, content |-> content]
ListResponses ==
    { [err |-> "request failed", dms |-> <<>>],
      [err |-> "", dms |-> <<>>],
      [err |-> "", dms |-> <<DM(<<1>>, <<19, 22, 5, 46>>),
                            DM(<<2>>, <<BadChar>>)>>] }

Running(p) == proc[p].pc \notin {"idle", "done"}

\* a new invocation: the flags and the arguments
Start(p, cmd, force, flagJSON, flagQuiet, text) ==
    /\ ~Running(p)
    /\ LET me == [ProcIdle EXCEPT !.cmd = cmd, !.force = force,
                                  !.flagJSON = flagJSON,
                                  !.flagQuiet = flagQuiet]
       IN  proc' = [proc EXCEPT ![p] =
               CASE cmd = "send" -> dmCmdArgs(me, text)
                 [] cmd = "init" -> [me EXCEPT !.pc = "init_check"]
                 [] cmd = "show" -> [me EXCEPT !.pc = "show"]
                 [] cmd = "ls" -> [me EXCEPT !.pc = "ls_list"]]
    /\ UNCHANGED <<rng, fs, registered, lastRet, labVars, auxVars>>

StartAny(p) ==
    \/ \E j, q \in BOOLEAN, text \in SendTexts :
           Start(p, "send", FALSE, j, q, text)
    \/ \E force, j, q \in BOOLEAN : Start(p, "init", force, j, q, <<>>)
    \/ \E j, q \in BOOLEAN : Start(p, "show", FALSE, j, q, <<>>)
    \/ \E j, q \in BOOLEAN : Start(p, "ls", FALSE, j, q, <<>>)

\* the next read of rand.Reader: it fails, or yields fresh bytes
Rand(n, d) == IF d = 0 THEN ReadRand(0, n) ELSE ReadRand(rng + 1, n)
RandChoices == IF rng < MaxRand THEN {0, 1} ELSE {0}

Returned(me) == [priv |-> me.privateKey, pub |-> me.publicKey]

SendLoad(p) ==
    /\ proc[p].pc = "send_load"
    /\ LET me == loadOrGenerateLoad(proc[p], fs)
       IN  /\ proc' = [proc EXCEPT ![p] = me]
           /\ lastRet' = IF me.pc = "send_getkey" THEN Returned(me) ELSE lastRet
    /\ UNCHANGED <<rng, fs, registered, labVars, auxVars>>

SendGen(p) ==
    /\ proc[p].pc = "send_gen"
    /\ \E d \in RandChoices :
          /\ proc' = [proc EXCEPT ![p] = loadOrGenerateGen(@, Rand(KeySize, d))]
          /\ rng' = rng + d
    /\ UNCHANGED <<fs, registered, lastRet, labVars, auxVars>>

SendSave(p) ==
    /\ proc[p].pc = "send_save"
    /\ LET saved == saveDMKeys(fs, proc[p].privateKey, proc[p].publicKey)
           me == loadOrGenerateSave(proc[p], saved)
       IN  /\ fs' = saved.fs
           /\ proc' = [proc EXCEPT ![p] = me]
           /\ lastRet' = IF me.pc = "send_getkey" THEN Returned(me) ELSE lastRet
    /\ UNCHANGED <<rng, registered, labVars, auxVars>>

SendGetKey(p) ==
    /\ proc[p].pc = "send_getkey"
    /\ \E resp \in KeyResponses :
          proc' = [proc EXCEPT ![p] = dmCmdGetKey(@, resp)]
    /\ UNCHANGED <<rng, fs, registered, lastRet, labVars, auxVars>>

SendEncrypt(p) ==
    /\ proc[p].pc = "send_encrypt"
    /\ \E d \in RandChoices :
          /\ proc' = [proc EXCEPT ![p] = dmCmdEncrypt(@, Rand(NonceSize, d))]
          /\ rng' = IF proc'[p].encryptedContent # <<>> THEN rng + d ELSE rng
    /\ UNCHANGED <<fs, registered, lastRet, labVars, auxVars>>

SendPost(p) ==
    /\ proc[p].pc = "send_post"
    /\ \E resp \in SendResponses :
          proc' = [proc EXCEPT ![p] = dmCmdSend(@, resp)]
    /\ UNCHANGED <<rng, fs, registered, lastRet, labVars, auxVars>>

\* the service stores the key it accepts; a failed request changes nothing
SendRegister(p) ==
    /\ proc[p].pc = "send_register"
    /\ \E ok \in BOOLEAN :
          LET resp == [err |-> IF ok THEN "" ELSE "request failed"]
          IN  /\ proc' = [proc EXCEPT ![p] = dmCmdRegister(@, resp)]
              /\ registered' = IF ok THEN EncodeToString(proc[p].publicKey)
                               ELSE registered
    /\ UNCHANGED <<rng, fs, lastRet, labVars, auxVars>>

InitCheck(p) ==
    /\ proc[p].pc = "init_check"
    /\ proc' = [proc EXCEPT ![p] = dmKeyInitCheck(@, fs)]
    /\ UNCHANGED <<rng, fs, registered, lastRet, labVars, auxVars>>

InitGen(p) ==
    /\ proc[p].pc = "init_gen"
    /\ \E d \in RandChoices :
          /\ proc' = [proc EXCEPT ![p] = dmKeyInitGen(@, Rand(KeySize, d))]
          /\ rng' = rng + d
    /\ UNCHANGED <<fs, registered, lastRet, labVars, auxVars>>

\* a regeneration: what loadOrGenerateDMKeys returned before is void
InitSave(p) ==
    /\ proc[p].pc = "init_save"
    /\ LET saved == saveDMKeys(fs, proc[p].privateKey, proc[p].publicKey)
       IN  /\ fs' = saved.fs
           /\ proc' = [proc EXCEPT ![p] = dmKeyInitSave(@, saved)]
           /\ lastRet' = IF saved.err = "" THEN <<>> ELSE lastRet
    /\ UNCHANGED <<rng, registered, labVars, auxVars>>

InitRegister(p) ==
    /\ proc[p].pc = "init_register"
    /\ \E ok \in BOOLEAN :
          LET pubKeyB64 == EncodeToString(proc[p].publicKey)
              resp == IF ok THEN [err |-> "", public_key |-> pubKeyB64]
                      ELSE [err |-> "request failed", public_key |-> <<>>]
          IN  /\ proc' = [proc EXCEPT ![p] = dmKeyInitRegister(@, resp)]
              /\ registered' = IF ok THEN pubKeyB64 ELSE registered
    /\ UNCHANGED <<rng, fs, lastRet, labVars, auxVars>>

Show(p) ==
    /\ proc[p].pc = "show"
    /\ proc' = [proc EXCEPT ![p] = dmKeyShow(@, fs)]
    /\ UNCHANGED <<rng, fs, registered, lastRet, labVars, auxVars>>

LsList(p) ==
    /\ proc[p].pc = "ls_list"
    /\ \E resp \in ListResponses :
          proc' = [proc EXCEPT ![p] = dmLsList(@, resp)]
    /\ UNCHANGED <<rng, fs, registered, lastRet, labVars, auxVars>>

LsRender(p) ==
    /\ proc[p].pc = "ls_render"
    /\ proc' = [proc EXCEPT ![p] = dmLsRender(@, fs)]
    /\ UNCHANGED <<rng, fs, registered, lastRet, labVars, auxVars>>

Step(p) ==
    \/ StartAny(p)
    \/ SendLoad(p)
    \/ SendGen(p)
    \/ SendSave(p)
    \/ SendGetKey(p)
    \/ SendEncrypt(p)
    \/ SendPost(p)
    \/ SendRegister(p)
    \/ InitCheck(p)
    \/ InitGen(p)
    \/ InitSave(p)
    \/ InitRegister(p)
    \/ Show(p)
    \/ LsList(p)
    \/ LsRender(p)

\* one invocation at a time
Init == CmdInit /\ LabIdle /\ AuxIdle
Next == Step(1)
Spec == Init /\ [][Next]_vars

(***************************************************************************)
(* Two invocations of `dm` at once on one key directory: the steps of the  *)
(* two processes interleave.                                               *)
(***************************************************************************)
RaceInit ==
    /\ rng = 0
    /\ fs \in {KeyFile(TRUE, TRUE, FALSE, FALSE, FALSE, FALSE, <<>>, <<>>),
               KeyFile(TRUE, TRUE, TRUE, TRUE, TRUE, TRUE, StoredPriv,
                       StoredPub)}
    /\ proc = [p \in Procs |-> ProcIdle]
    /\ registered = <<>>
    /\ lastRet = <<>>
    /\ LabIdle /\ AuxIdle

\* each process is one invocation `mesh dm bob hh`
RaceStart(p) ==
    /\ proc[p].pc = "idle"
    /\ Start(p, "send", FALSE, FALSE, FALSE, <<104, 104>>)

RaceNext ==
    \E p \in Procs :
        \/ RaceStart(p)
        \/ SendLoad(p)
        \/ SendGen(p)
        \/ SendSave(p)
        \/ SendGetKey(p)
        \/ SendEncrypt(p)
        \/ SendPost(p)
        \/ SendRegister(p)

SpecRace == RaceInit /\ [][RaceNext]_vars

(***************************************************************************)
(* Cipher harness: encryptMessage and decryptMessage applied to bounded    *)
(* inputs.  dm.go never calls decryptMessage itself, so its callers are    *)
(* the recipient of an envelope, a holder of some other key, and a relay   *)
(* that flips one bit of the stored envelope.                              *)
(***************************************************************************)
MsgBytes == {104, 255}

RECURSIVE SeqsUpTo(_, _)
SeqsUpTo(S, n) ==
    IF n = 0 THEN {<<>>}
    ELSE LET shorter == SeqsUpTo(S, n - 1)
         IN  shorter \cup {Append(s, b) : s \in {t \in shorter : Len(t) = n - 1},
                                          b \in S}

Plaintexts == SeqsUpTo(MsgBytes, MaxMsgLen)

\* key pairs that exist before the behaviour starts
PreKeys == {KeyOfSeed(13), KeyOfSeed(14)}
\* a key pair of a third party
OtherKey == KeyOfSeed(15)

LabInit ==
    /\ rng = 0
    /\ CmdIdle
    /\ labPlain \in Plaintexts
    /\ labA \in PreKeys
    /\ labB = KeyOfSeed(14)
    /\ labEncs = <<>>
    /\ labDec = NoDec
    /\ AuxIdle

\* the sender encrypts labPlain for the recipient's current public key
LabEncrypt ==
    /\ labDec = NoDec
    /\ Len(labEncs) < MaxEnc
    /\ rng < MaxRand
    /\ LET r == encryptMessage(labPlain, labA.priv, labB.pub,
                               ReadRand(rng + 1, NonceSize))
       IN  /\ r.err = ""
           /\ labEncs' = Append(labEncs,
                  [env |-> r.val, plain |-> labPlain, sender |-> labA,
                   recipient |-> labB])
    /\ rng' = rng + 1
    /\ labDec' = NoDec
    /\ UNCHANGED <<labPlain, labA, labB, cmdVars, auxVars>>

\* private and public keys a caller of decryptMessage may hold
LabPrivs(e) == {e.recipient.priv, e.sender.priv, labB.priv, OtherKey.priv,
                ZeroBytes(KeySize)}
LabPubs(e) == {e.sender.pub, e.recipient.pub, OtherKey.pub,
               ZeroBytes(KeySize)}

\* decryptMessage on envelope i with private key K and public key Q, at
\* least one of which is the right one; the harness records one
\* decryptMessage call per behaviour
LabDecrypt(i, K, Q) ==
    /\ labDec = NoDec
    /\ K = labEncs[i].recipient.priv \/ Q = labEncs[i].sender.pub
    /\ labDec' = [kind |-> "decrypt", idx |-> i, input |-> labEncs[i].env,
                  priv |-> K, pub |-> Q,
                  res |-> decryptMessage(labEncs[i].env, K, Q)]
    /\ UNCHANGED <<rng, labPlain, labA, labB, labEncs, cmdVars, auxVars>>

FlipBit(v, b) ==
    IF (v \div (2 ^ b)) % 2 = 1 THEN v - 2 ^ b ELSE v + 2 ^ b

\* the envelope with bit b of byte pos of the decoded data flipped
TamperEnvelope(env, pos, b) ==
    LET data == DecodeString(env).bytes
    IN  EncodeToString([data EXCEPT ![pos] = FlipBit(data[pos], b)])

\* the recipient decrypts envelope i after one bit of its ciphertext portion
\* was flipped in transit
LabDecryptTampered(i, pos, b) ==
    /\ labDec = NoDec
    /\ LET e == labEncs[i]
           t == TamperEnvelope(e.env, pos, b)
       IN  labDec' = [kind |-> "tampered", idx |-> i, input |-> t,
                      priv |-> e.recipient.priv, pub |-> e.sender.pub,
                      res |-> decryptMessage(t, e.recipient.priv, e.sender.pub)]
    /\ UNCHANGED <<rng, labPlain, labA, labB, labEncs, cmdVars, auxVars>>

\* lengths an envelope is cut to: around zero and around the nonce size
TruncLens == {0, 1, 2, 3, NonceSize - 1, NonceSize}

\* what is left of an envelope after damage to its text: the data cut to a
\* length of TruncLens, a character that is not of the alphabet, a lost
\* last character, padding inside the text
Damaged(env) ==
    {EncodeToString(SubSeq(DecodeString(env).bytes, 1, n)) : n \in TruncLens}
    \cup {[env EXCEPT ![k] = BadChar] : k \in {1, Len(env)}}
    \cup {SubSeq(env, 1, Len(env) - 1), [env EXCEPT ![2] = PadChar]}

\* the recipient decrypts what is left of envelope i
LabDecryptDamaged(i, input) ==
    /\ labDec = NoDec
    /\ LET e == labEncs[i]
       IN  labDec' = [kind |-> "damaged", idx |-> i, input |-> input,
                      priv |-> e.recipient.priv, pub |-> e.sender.pub,
                      res |-> decryptMessage(input, e.recipient.priv,
                                             e.sender.pub)]
    /\ UNCHANGED <<rng, labPlain, labA, labB, labEncs, cmdVars, auxVars>>

\* the recipient replaces its key pair, as `dm key init --force` does
LabRegenerate ==
    /\ labDec = NoDec
    /\ rng < MaxRand
    /\ labEncs # <<>>
    /\ labB' = KeyOfSeed(rng + 1)
    /\ rng' = rng + 1
    /\ labDec' = NoDec
    /\ UNCHANGED <<labPlain, labA, labEncs, cmdVars, auxVars>>

EnvelopeLen(e) == NonceSize + TagSize + Len(e.plain)

LabNext ==
    \/ LabEncrypt
    \/ \E i \in 1..Len(labEncs) :
           \E K \in LabPrivs(labEncs[i]), Q \in LabPubs(labEncs[i]) :
               LabDecrypt(i, K, Q)
    \/ \E i \in 1..Len(labEncs) :
           \E pos \in (NonceSize + 1)..EnvelopeLen(labEncs[i]), b \in 0..7 :
               LabDecryptTampered(i, pos, b)
    \/ \E i \in 1..Len(labEncs) :
           \E input \in Damaged(labEncs[i].env) : LabDecryptDamaged(i, input)
    \/ LabRegenerate

SpecCipher == LabInit /\ [][LabNext]_vars

(***************************************************************************)
(* Rendering harness: Printer.Error applied to the errors the DM commands  *)
(* and the functions of dm.go return, in both output modes.                *)
(***************************************************************************)
MaxRendered == 2

\* the errors of dm.go by the message that wraps them and the kind of
\* failure underneath
DmErrors ==
    { [msg |-> "key management", kind |-> "KeyStorage"],
      [msg |-> "failed to save keys", kind |-> "KeyStorage"],
      [msg |-> "key generation failed", kind |-> "RandomSource"],
      [msg |-> "encryption failed", kind |-> "RandomSource"],
      [msg |-> "no DM keys found", kind |-> "KeyNotFound"],
      [msg |-> "DM keys already exist", kind |-> "KeyExists"],
      [msg |-> "failed to get recipient key",
       kind |-> "RecipientKeyUnavailable"],
      [msg |-> "failed to get recipient key", kind |-> "TransportError"],
      [msg |-> "send", kind |-> "TransportError"],
      [msg |-> "list", kind |-> "TransportError"],
      [msg |-> "failed to register key", kind |-> "TransportError"],
      [msg |-> "invalid recipient key", kind |-> "InvalidKey"],
      [msg |-> "decode", kind |-> "Structural"],
      [msg |-> "invalid encrypted message", kind |-> "Structural"],
      [msg |-> "decryption failed", kind |-> "AuthenticationFailure"] }

\* what the user sees of the error e after out.Error(e): the stream, the
\* code and the message
Rendering(e, flagJSON) ==
    LET me == PrinterError([ProcIdle EXCEPT !.flagJSON = flagJSON], e.msg)
        line == me.out[Len(me.out)]
    IN  [kind |-> e.kind, json |-> flagJSON, stream |-> line.stream,
         code |-> line.text, msg |-> me.err]

Render(e, flagJSON) ==
    /\ Cardinality(rendered) < MaxRendered
    /\ rendered' = rendered \cup {Rendering(e, flagJSON)}
    /\ UNCHANGED <<rng, labVars, cmdVars, pathVars, mcpVars, lateVars>>

RenderInit == rng = 0 /\ CmdIdle /\ LabIdle /\ AuxIdle
RenderNext == \E e \in DmErrors, flagJSON \in BOOLEAN : Render(e, flagJSON)
SpecRender == RenderInit /\ [][RenderNext]_vars

(***************************************************************************)
(* Path harness: invocations of the tool under different values of         *)
(* MSH_CONFIG_DIR, one after the other, each loading or replacing its DM   *)
(* key pair.                                                               *)
(***************************************************************************)
\* the invocation's record of what it did to the file at path
Invocation(op, root, path, pair) ==
    [op |-> op, root |-> root, path |-> path, pair |-> pair,
     from |-> keyOwner[path]]

\* generate a pair and save it to the key file of the invocation
PathGenerate(root) ==
    LET path == dmKeyPath(root)
        key == GenerateKey(ReadRand(rng + 1, KeySize))
        saved == saveDMKeys(disk[path], key.priv, key.pub)
    IN  /\ rng < MaxRand
        /\ rng' = rng + 1
        /\ disk' = [disk EXCEPT ![path] = saved.fs]
        /\ IF saved.err = ""
           THEN /\ keyOwner' = [keyOwner EXCEPT ![path] = root]
                /\ inv' = Invocation("save", root, path,
                                     [priv |-> key.priv, pub |-> key.pub])
           ELSE /\ keyOwner' = keyOwner
                /\ inv' = Invocation("save failed", root, path,
                                     [priv |-> <<>>, pub |-> <<>>])

\* loadOrGenerateDMKeys of a `dm` send run with MSH_CONFIG_DIR = root
PathLoadOrGenerate(root) ==
    /\ LET path == dmKeyPath(root)
           loaded == loadDMKeys(disk[path])
       IN  IF loaded.err = ""
           THEN /\ inv' = Invocation("load", root, path,
                                     [priv |-> loaded.priv, pub |-> loaded.pub])
                /\ UNCHANGED <<rng, disk, keyOwner>>
           ELSE PathGenerate(root)
    /\ UNCHANGED <<rendered, labVars, cmdVars, mcpVars, lateVars>>

\* `dm key init --force` run with MSH_CONFIG_DIR = root
PathInitForce(root) ==
    /\ PathGenerate(root)
    /\ UNCHANGED <<rendered, labVars, cmdVars, mcpVars, lateVars>>

\* the key file under the home directory is any of KeyFiles, written, if
\* it exists, by an earlier invocation under any config root
PathInit ==
    /\ rng = 0 /\ CmdIdle /\ LabIdle /\ RenderIdle /\ McpIdle /\ LateIdle
    /\ inv = NoInv
    /\ \E f \in KeyFiles, root \in ConfigRoots :
          /\ disk = [path \in KeyPaths |->
                       IF path = dmKeyPath(Unset) THEN f
                       ELSE KeyFile(TRUE, TRUE, FALSE, FALSE, FALSE, FALSE,
                                    <<>>, <<>>)]
          /\ keyOwner = [path \in KeyPaths |->
                           IF path = dmKeyPath(Unset) /\ f.exists THEN root
                           ELSE "nobody"]
PathNext ==
    \/ \E root \in ConfigRoots : PathLoadOrGenerate(root)
    \/ \E root \in ConfigRoots : PathInitForce(root)
SpecPath == PathInit /\ [][PathNext]_vars

(***************************************************************************)
(* Key path harness: validateKeyPath applied to paths made of a few names  *)
(***************************************************************************)
MaxPathDepth == 2

\* names of a path: ~/.ssh's own name, a sibling that begins with it, a
\* key file, a config directory, "." and ".."
PathNames == {<<".", "s">>, <<".", "s", "x">>, <<"k">>, <<"c">>, <<".">>,
              <<".", ".">>}

RECURSIVE RelPaths(_)
RelPaths(n) ==
    IF n = 1 THEN PathNames
    ELSE RelPaths(n - 1)
         \cup {path \o <<Slash>> \o name :
                  path \in {q \in RelPaths(n - 1) :
                               Len(SplitPath(q)) = n - 1},
                  name \in PathNames}

\* the key paths a caller passes: relative to the working directory (the
\* home directory), below the home directory, below the root
KeyPathInputs ==
    UNION {{path, HomePath \o <<Slash>> \o path, <<Slash>> \o path} :
              path \in RelPaths(MaxPathDepth)}

ConfigDirs == {<<>>, <<Slash, "c">>}

LabValidateKeyPath(keyPath, configDir, exists) ==
    /\ keyPathCall = NoKeyPathCall
    /\ keyPathCall' =
          [op |-> "validateKeyPath", keyPath |-> keyPath,
           configDir |-> configDir, exists |-> exists,
           res |-> validateKeyPath(keyPath, configDir, HomePath, exists)]
    /\ UNCHANGED <<oldVars, concVars, now, sessVars, ctxVars>>

KeyPathInit ==
    /\ rng = 0 /\ CmdIdle /\ LabIdle /\ AuxIdle

KeyPathNext ==
    \E keyPath \in KeyPathInputs, configDir \in ConfigDirs, exists \in BOOLEAN :
        LabValidateKeyPath(keyPath, configDir, exists)

SpecKeyPath == KeyPathInit /\ [][KeyPathNext]_vars

(***************************************************************************)
(* Session harness: one process calling Load, Save and Clear while         *)
(* MSH_CONFIG_DIR changes and time passes                                  *)
(***************************************************************************)
MaxTime == 2

SessionTokens == {"ta", "tb"}

\* the sessions a caller saves: without expiry, or expiring at tick 1
Sessions ==
    {[nil |-> FALSE, token |-> token, hasExpiry |-> hasExpiry,
      expiresAt |-> IF hasExpiry THEN 1 ELSE 0] :
        token \in SessionTokens, hasExpiry \in BOOLEAN}

\* os.Setenv("MSH_CONFIG_DIR", root)
SessSetenv(root) ==
    /\ envDir # root
    /\ envDir' = root
    /\ sessLoaded' = NoLoad
    /\ UNCHANGED <<oldVars, concVars, keyPathCall, now, sessMem, sessDisk, ctxVars>>

SessLoad ==
    LET r == sessionLoad(sessMem, sessDisk, envDir, now)
    IN  /\ sessMem' = r.mem
        /\ sessLoaded' = [op |-> "Load", env |-> envDir, err |-> r.err,
                          sess |-> r.sess]
        /\ UNCHANGED <<oldVars, concVars, keyPathCall, now, sessDisk, envDir, ctxVars>>

SessSave(sess, written) ==
    LET r == sessionSave(sessMem, sessDisk, envDir, sess, written)
    IN  /\ sessMem' = r.mem
        /\ sessDisk' = r.files
        /\ sessLoaded' = NoLoad
        /\ UNCHANGED <<oldVars, concVars, keyPathCall, now, envDir, ctxVars>>

SessClear(removed) ==
    LET r == sessionClear(sessMem, sessDisk, envDir, removed)
    IN  /\ sessMem' = r.mem
        /\ sessDisk' = r.files
        /\ sessLoaded' = NoLoad
        /\ UNCHANGED <<oldVars, concVars, keyPathCall, now, envDir, ctxVars>>

\* time passes
SessTick ==
    /\ now < MaxTime
    /\ now' = now + 1
    /\ sessLoaded' = NoLoad
    /\ UNCHANGED <<oldVars, concVars, keyPathCall, sessMem, sessDisk, envDir, ctxVars>>

SessionInit ==
    /\ rng = 0 /\ CmdIdle /\ LabIdle /\ AuxIdle

SessionNext ==
    \/ \E root \in ConfigRoots : SessSetenv(root)
    \/ SessLoad
    \/ \E sess \in Sessions, written \in BOOLEAN : SessSave(sess, written)
    \/ \E removed \in BOOLEAN : SessClear(removed)
    \/ SessTick

SpecSession == SessionInit /\ [][SessionNext]_vars

(***************************************************************************)
(* Context harness: one invocation of the CLI after the other, each a      *)
(* process that sets, clears and resolves the context, while time passes   *)
(***************************************************************************)
ContextIDs == {"p1", "p2"}
ContextTypes == {"post", "user"}
Targets == {"this", "p1", "@bob"}

CtxSet(id, typ, written) ==
    LET r == contextSet(ctxMem, ctxDisk, id, typ, now, written)
    IN  /\ ctxMem' = r.mem
        /\ ctxDisk' = r.file
        /\ lastSet' = IF r.err = ""
                      THEN [ctx |-> r.mem, prev |-> lastSet.ctx.id]
                      ELSE lastSet
        /\ ctxResolved' = NoResolve
        /\ UNCHANGED <<oldVars, concVars, keyPathCall, now, sessVars>>

CtxClear(removed) ==
    LET r == contextClear(ctxMem, ctxDisk, removed)
    IN  /\ ctxMem' = r.mem
        /\ ctxDisk' = r.file
        /\ lastSet' = IF r.err = "" THEN NoLastSet ELSE lastSet
        /\ ctxResolved' = NoResolve
        /\ UNCHANGED <<oldVars, concVars, keyPathCall, now, sessVars>>

CtxResolve(target) ==
    LET r == ResolveTarget(ctxMem, ctxDisk, target, now)
    IN  /\ ctxMem' = r.mem
        /\ ctxResolved' = [target |-> target, id |-> r.id,
                           fromContext |-> r.fromContext, err |-> r.err]
        /\ UNCHANGED <<oldVars, concVars, keyPathCall, now, sessVars, ctxDisk, lastSet>>

\* the process ends and the next invocation starts
CtxRestart ==
    /\ ~ctxMem.nil
    /\ ctxMem' = NilContext
    /\ ctxResolved' = NoResolve
    /\ UNCHANGED <<oldVars, concVars, keyPathCall, now, sessVars, ctxDisk, lastSet>>

\* time passes
CtxTick ==
    /\ now < MaxTime
    /\ now' = now + 1
    /\ ctxResolved' = NoResolve
    /\ UNCHANGED <<oldVars, concVars, keyPathCall, sessVars, ctxMem, ctxDisk, lastSet>>

ContextInit ==
    /\ rng = 0 /\ CmdIdle /\ LabIdle /\ AuxIdle

ContextNext ==
    \/ \E id \in ContextIDs, typ \in ContextTypes, written \in BOOLEAN :
           CtxSet(id, typ, written)
    \/ \E removed \in BOOLEAN : CtxClear(removed)
    \/ \E target \in Targets : CtxResolve(target)
    \/ CtxRestart
    \/ CtxTick

SpecContext == ContextInit /\ [][ContextNext]_vars

(***************************************************************************)
(* Concurrent use of one AuthState: a writer goroutine calling SetAuth and *)
(* Clear in turn and reader goroutines calling the four getters in turn,   *)
(* each call a sequence of steps: take the lock, access the fields one     *)
(* at a time, release the lock.                                             *)
(***************************************************************************)
Iterations == 1

WriterOps == <<"SetAuth", "Clear">>
Getters == <<"IsAuthenticated", "GetToken", "GetUser", "GetClient">>

\* the getter takes the read lock: `a.mu.RLock(); defer a.mu.RUnlock()`
\* here only in three of the four getters
GetterLocks_TokenUnlocked(getter) == getter # "GetToken"

GetterLocks(getter) == TRUE

\* what the getter returns on the AuthState a
Getter(getter, a) ==
    CASE getter = "IsAuthenticated" -> IsAuthenticated(a)
      [] getter = "GetToken" -> GetToken(a)
      [] getter = "GetUser" -> GetUser(a)
      [] getter = "GetClient" -> GetClient(a)

\* the AuthState the call of the writer leaves
WriterTarget(op, a) ==
    IF WriterOps[op] = "SetAuth" THEN SetAuth(a, "token", User("test"))
    ELSE Clear(a)

\* what the goroutines leave alone
concFrame == <<rng, labVars, cmdVars, rendered, pathVars, apiCalls, toolResult,
               keyPathCall, now, sessVars, ctxVars>>

\* a.mu.Lock(), first half: the writer announces itself, and from now on
\* no reader is admitted
WriterRequest ==
    /\ gor[Writer].pc = "call"
    /\ mu' = [mu EXCEPT !.pending = TRUE]
    /\ gor' = [gor EXCEPT ![Writer].pc = "lock"]
    /\ UNCHANGED <<auth, committed, concFrame>>

\* a.mu.Lock(), second half: the writer waits until the readers have left
WriterLock ==
    /\ gor[Writer].pc = "lock"
    /\ mu.readers = {} /\ ~mu.writer
    /\ mu' = [mu EXCEPT !.pending = FALSE, !.writer = TRUE]
    /\ gor' = [gor EXCEPT ![Writer].pc = "token"]
    /\ UNCHANGED <<auth, committed, concFrame>>

\* the three assignments of SetAuth and of Clear, one step each
WriterWrite ==
    LET me == gor[Writer]
        target == WriterTarget(me.op, auth)
    IN  /\ me.pc \in {"token", "user", "client"}
        /\ auth' = CASE me.pc = "token" -> [auth EXCEPT !.token = target.token]
                      [] me.pc = "user" -> [auth EXCEPT !.user = target.user]
                      [] me.pc = "client" ->
                             [auth EXCEPT !.client = target.client]
        /\ gor' = [gor EXCEPT ![Writer].pc =
                       CASE me.pc = "token" -> "user"
                         [] me.pc = "user" -> "client"
                         [] me.pc = "client" -> "unlock"]
        /\ UNCHANGED <<mu, committed, concFrame>>

\* the deferred a.mu.Unlock() and the return; then the next call of the loop
WriterUnlock ==
    LET me == gor[Writer]
    IN  /\ me.pc = "unlock"
        /\ mu' = [mu EXCEPT !.writer = FALSE]
        /\ committed' = auth
        /\ gor' = [gor EXCEPT ![Writer] =
                       IF me.op < Len(WriterOps)
                       THEN [me EXCEPT !.pc = "call", !.op = me.op + 1]
                       ELSE IF me.iter < Iterations
                       THEN [me EXCEPT !.pc = "call", !.op = 1,
                                       !.iter = me.iter + 1]
                       ELSE [me EXCEPT !.pc = "done"]]
        /\ UNCHANGED <<auth, concFrame>>

\* a.mu.RLock(): waits while a writer holds the lock or has announced itself
ReaderRLock(r) ==
    LET me == gor[r]
    IN  /\ me.pc = "rlock"
        /\ IF GetterLocks(Getters[me.op])
           THEN /\ ~mu.writer /\ ~mu.pending
                /\ mu' = [mu EXCEPT !.readers = mu.readers \cup {r}]
           ELSE mu' = mu
        /\ gor' = [gor EXCEPT ![r].pc = "read"]
        /\ UNCHANGED <<auth, committed, concFrame>>

\* the read of the field
ReaderRead(r) ==
    LET me == gor[r]
    IN  /\ me.pc = "read"
        /\ gor' = [gor EXCEPT ![r].pc = "runlock",
                              ![r].obs = [has |-> TRUE,
                                          val |-> Getter(Getters[me.op], auth)]]
        /\ UNCHANGED <<mu, auth, committed, concFrame>>

\* the deferred a.mu.RUnlock() and the return; then the next getter
ReaderRUnlock(r) ==
    LET me == gor[r]
    IN  /\ me.pc = "runlock"
        /\ mu' = [mu EXCEPT !.readers = mu.readers \ {r}]
        /\ gor' = [gor EXCEPT ![r] =
                       IF me.op < Len(Getters)
                       THEN [me EXCEPT !.pc = "rlock", !.op = me.op + 1,
                                       !.obs = NoObs]
                       ELSE IF me.iter < Iterations
                       THEN [me EXCEPT !.pc = "rlock", !.op = 1,
                                       !.iter = me.iter + 1, !.obs = NoObs]
                       ELSE [me EXCEPT !.pc = "done", !.obs = NoObs]]
        /\ UNCHANGED <<auth, committed, concFrame>>

\* one step of the goroutine g
GoStep(g) ==
    IF g = Writer
    THEN WriterRequest \/ WriterLock \/ WriterWrite \/ WriterUnlock
    ELSE ReaderRLock(g) \/ ReaderRead(g) \/ ReaderRUnlock(g)

\* the goroutines have been started on a new AuthState, MSH_TOKEN unset
ConcurrentInit ==
    /\ rng = 0 /\ CmdIdle /\ LabIdle /\ RenderIdle /\ PathIdle /\ McpIdle
    /\ keyPathCall = NoKeyPathCall /\ now = 0 /\ SessIdle /\ CtxIdle
    /\ mu = Unlocked
    /\ gor = [g \in Goroutines |->
                [pc |-> IF g = Writer THEN "call" ELSE "rlock", iter |-> 1,
                 op |-> 1, obs |-> NoObs]]
    /\ committed = NewAuthState("")

ConcurrentNext ==
    \/ WriterRequest
    \/ WriterLock
    \/ WriterWrite
    \/ WriterUnlock
    \/ \E r \in Readers : ReaderRLock(r)
    \/ \E r \in Readers : ReaderRead(r)
    \/ \E r \in Readers : ReaderRUnlock(r)

SpecConcurrent == ConcurrentInit /\ [][ConcurrentNext]_vars

\* the scheduler of Go lets every goroutine that can take a step take one
SpecConcurrentFair ==
    SpecConcurrent /\ \A g \in Goroutines : WF_vars(GoStep(g))

(***************************************************************************)
(* MCP server: tool calls on one AuthState, one after the other            *)
(***************************************************************************)
MaxCalls == 1

Tokens == {"", "tok", "  "}
Users == {NilUser, User("alice")}
ArgVals == {NoArg, NumArg, StrArg(<<"@", "b">>)}
ArgMaps == [ArgNames -> ArgVals]
ApiResponses == {[err |-> ""], [err |-> "request failed"]}
WriteTools == {"HandlePost", "HandleReply", "HandleFollow", "HandleUnfollow",
               "HandleLike", "HandleUnlike"}

\* the arguments a handler requires with RequireString
RequiredArgs(tool) ==
    CASE tool = "HandlePost" -> {"content"}
      [] tool = "HandleReply" -> {"post_id", "content"}
      [] tool \in {"HandleFollow", "HandleUnfollow"} -> {"handle"}
      [] tool \in {"HandleLike", "HandleUnlike"} -> {"post_id"}

\* the handler the server runs for a tool
HandleWrite(tool, a, args, resp) ==
    CASE tool = "HandlePost" -> HandlePost(a, args, resp)
      [] tool = "HandleReply" -> HandleReply(a, args, resp)
      [] tool = "HandleFollow" -> HandleFollow(a, args, resp)
      [] tool = "HandleUnfollow" -> HandleUnfollow(a, args, resp)
      [] tool = "HandleLike" -> HandleLike(a, args, resp)
      [] tool = "HandleUnlike" -> HandleUnlike(a, args, resp)

McpSetAuth(token, user) ==
    /\ auth' = SetAuth(auth, token, user)
    /\ UNCHANGED <<apiCalls, toolResult, rng, rendered, labVars, cmdVars,
                   pathVars, lateVars>>

McpClear ==
    /\ auth' = Clear(auth)
    /\ UNCHANGED <<apiCalls, toolResult, rng, rendered, labVars, cmdVars,
                   pathVars, lateVars>>

McpWrite(tool, args, resp) ==
    /\ LET r == HandleWrite(tool, auth, args, resp)
       IN  /\ Len(apiCalls) + Len(r.calls) <= MaxCalls
           /\ resp.err = "" \/ r.calls # <<>>
           /\ toolResult' =
                  [tool |-> tool, authed |-> IsAuthenticated(auth),
                   complete |-> \A k \in RequiredArgs(tool) :
                                   RequireString(args, k).err = "",
                   res |-> r.res, calls |-> r.calls]
           /\ apiCalls' = apiCalls \o r.calls
    /\ UNCHANGED <<auth, rng, rendered, labVars, cmdVars, pathVars, lateVars>>

McpStatus(resp) ==
    /\ LET r == HandleStatus(auth, resp)
       IN  /\ Len(apiCalls) + Len(r.calls) <= MaxCalls
           /\ resp.err = "" \/ r.calls # <<>>
           /\ toolResult' =
                  [tool |-> "HandleStatus", authed |-> IsAuthenticated(auth),
                   complete |-> TRUE, res |-> r.res, calls |-> r.calls]
           /\ apiCalls' = apiCalls \o r.calls
           /\ auth' = r.auth
    /\ UNCHANGED <<rng, rendered, labVars, cmdVars, pathVars, lateVars>>

McpInit ==
    /\ rng = 0 /\ CmdIdle /\ LabIdle /\ RenderIdle /\ PathIdle /\ LateIdle
    /\ auth \in {NewAuthState(token) : token \in Tokens}
    /\ apiCalls = <<>>
    /\ toolResult = NoTool

McpNext ==
    \/ \E token \in Tokens, user \in Users : McpSetAuth(token, user)
    \/ McpClear
    \/ \E tool \in WriteTools, args \in ArgMaps, resp \in ApiResponses :
           McpWrite(tool, args, resp)
    \/ \E resp \in ApiResponses : McpStatus(resp)

SpecMCP == McpInit /\ [][McpNext]_vars

\* C1: round trip -- decrypting an envelope with the private key of the
\* recipient it was encrypted to and the public key of its sender succeeds
\* and returns exactly the plaintext that was encrypted.
RoundTrip ==
    (labDec.kind = "decrypt"
        /\ labDec.priv = labEncs[labDec.idx].recipient.priv
        /\ labDec.pub = labEncs[labDec.idx].sender.pub)
    => (labDec.res.err = "" /\ labDec.res.val = labEncs[labDec.idx].plain)

RoundTripWitness ==
    /\ labDec.kind = "decrypt"
    /\ labDec.priv = labEncs[labDec.idx].recipient.priv
    /\ labDec.pub = labEncs[labDec.idx].sender.pub
    /\ Len(labEncs[labDec.idx].plain) = MaxMsgLen
    /\ labDec.res.val = labEncs[labDec.idx].plain

\* C2: tamper detection -- after any single bit of the ciphertext portion of
\* an envelope is flipped, decryptMessage fails with the authentication
\* error; no decryptMessage call on an envelope or a tampered envelope
\* returns a plaintext other than the one that was encrypted.
TamperDetected ==
    /\ labDec.kind = "tampered" => labDec.res.err = "decryption failed"
    /\ (labDec.kind # "none" /\ labDec.res.err = "")
          => labDec.res.val = labEncs[labDec.idx].plain

TamperWitness ==
    /\ labDec.kind = "tampered"
    /\ labDec.input # labEncs[labDec.idx].env
    /\ Len(labEncs[labDec.idx].plain) > 0
    /\ labDec.res.err = "decryption failed"

\* C3: wrong-key rejection -- decryptMessage with the sender's public key
\* and any private key other than the recipient's fails, and with the
\* recipient's private key and any public key other than the sender's
\* fails; after the recipient regenerated its key pair, decrypting an
\* earlier envelope with the new private key fails.
WrongKeyRejected ==
    labDec.kind = "decrypt" =>
        LET e == labEncs[labDec.idx]
        IN  /\ (labDec.pub = e.sender.pub /\ labDec.priv # e.recipient.priv)
                  => labDec.res.err # ""
            /\ (labDec.priv = e.recipient.priv /\ labDec.pub # e.sender.pub)
                  => labDec.res.err # ""

WrongKeyWitness ==
    /\ labDec.kind = "decrypt"
    /\ labB # labEncs[labDec.idx].recipient
    /\ labDec.priv = labB.priv
    /\ labDec.pub = labEncs[labDec.idx].sender.pub
    /\ labDec.res.err = "decryption failed"

\* the nonce an envelope carries: the first 24 bytes of the decoded data
NonceOf(env) == SubSeq(DecodeString(env).bytes, 1, NonceSize)
CiphertextOf(env) ==
    LET data == DecodeString(env).bytes
    IN  SubSeq(data, NonceSize + 1, Len(data))

\* C4: nonce uniqueness -- any two envelopes produced under the same sender
\* private key and recipient public key carry different nonces and
\* different ciphertexts, also when the plaintext is the same.
NonceUnique ==
    \A i, j \in 1..Len(labEncs) :
        (i # j /\ labEncs[i].sender = labEncs[j].sender
               /\ labEncs[i].recipient.pub = labEncs[j].recipient.pub)
        => /\ NonceOf(labEncs[i].env) # NonceOf(labEncs[j].env)
           /\ CiphertextOf(labEncs[i].env) # CiphertextOf(labEncs[j].env)
           /\ labEncs[i].env # labEncs[j].env

NonceUniqueWitness ==
    /\ Len(labEncs) >= 2
    /\ labEncs[1].plain = labEncs[2].plain
    /\ labEncs[1].sender = labEncs[2].sender
    /\ labEncs[1].recipient = labEncs[2].recipient
    /\ Len(NonceOf(labEncs[2].env)) = NonceSize

(***************************************************************************)
(* Properties of the commands                                              *)
(***************************************************************************)
SendRequests(me) == {i \in 1..Len(me.reqs) : me.reqs[i].op = "SendDM"}

EncryptionErrors ==
    {"key management", "failed to get recipient key", "invalid recipient key",
     "encryption failed"}

\* C5: no plaintext fallback -- the content of every SendDM request is an
\* envelope that opens, under the sender's private key and the recipient's
\* public key, to the user's message, and is never the message itself; a
\* `dm` command that reported a key, recipient-key or encryption error has
\* exited with status 1 and has sent no SendDM request.
NoPlaintextFallback ==
    \A p \in Procs :
        LET me == proc[p]
        IN  /\ \A i \in SendRequests(me) :
                  /\ me.cmd = "send"
                  /\ me.reqs[i].content # me.content
                  /\ decryptMessage(me.reqs[i].content, me.privateKey,
                                    me.recipientPubKey)
                        = [err |-> "", val |-> me.content]
            /\ (me.cmd = "send" /\ me.err \in EncryptionErrors)
                  => (me.pc = "done" /\ me.exit = 1 /\ SendRequests(me) = {})

NoPlaintextFallbackWitness ==
    \E p \in Procs :
        /\ proc[p].cmd = "send"
        /\ proc[p].pc = "done"
        /\ proc[p].exit = 0
        /\ SendRequests(proc[p]) # {}

Contains(hay, needle) ==
    \E i \in 0..(Len(hay) - Len(needle)) :
        SubSeq(hay, i + 1, i + Len(needle)) = needle

\* the private key a process holds and the one stored in the key file, raw
\* and as base64 text
PrivateKeys(p) ==
    (IF proc[p].privateKey = <<>> THEN {}
     ELSE {proc[p].privateKey, EncodeToString(proc[p].privateKey)})
    \cup
    (IF Len(DecodeString(fs.private_key).bytes) = KeySize
     THEN {fs.private_key, DecodeString(fs.private_key).bytes}
     ELSE {})

\* C6: the private key never leaves the machine -- no field of a request
\* and no printed output contains the private key, raw or base64-encoded.
PrivateKeyStaysLocal ==
    \A p \in Procs :
        \A k \in PrivateKeys(p) :
            /\ \A i \in 1..Len(proc[p].reqs) :
                  /\ ~Contains(proc[p].reqs[i].content, k)
                  /\ ~Contains(proc[p].reqs[i].public_key, k)
            /\ \A i \in 1..Len(proc[p].out) :
                  ~Contains(proc[p].out[i].data, k)

\* a valid key file is present: loadDMKeys returns the stored 32-byte keys
HasKey(f) ==
    /\ loadDMKeys(f).err = ""
    /\ Len(DecodeString(f.private_key).bytes) = KeySize
    /\ Len(DecodeString(f.public_key).bytes) = KeySize

\* C7: key store state machine -- while a valid key file exists, only a
\* `dm key init --force` changes the key file, and `dm key init` without
\* --force exits with status 1 without writing the file and without a
\* request to the service.
KeyStoreStateMachine ==
    [][/\ (fs' # fs /\ HasKey(fs))
             => \E p \in Procs : proc[p].pc = "init_save" /\ proc[p].force
       /\ \A p \in Procs :
             (/\ proc[p].pc = "init_check"
              /\ proc'[p].pc # "init_check"
              /\ ~proc[p].force
              /\ HasKey(fs))
             => (/\ proc'[p].pc = "done"
                 /\ proc'[p].exit = 1
                 /\ proc'[p].reqs = <<>>
                 /\ fs' = fs)]_vars

KeyStoreWitness ==
    \E p \in Procs :
        /\ proc[p].cmd = "init"
        /\ ~proc[p].force
        /\ proc[p].pc = "done"
        /\ proc[p].err = "DM keys already exist"
        /\ HasKey(fs)

\* C8: key persistence idempotence -- when loadOrGenerateDMKeys returns and
\* it returned before with no regeneration since, it returns the same pair.
LoadOrGenerateIdempotent ==
    [][\A p \in Procs :
          (/\ proc[p].pc \in {"send_load", "send_save"}
           /\ proc'[p].pc = "send_getkey"
           /\ lastRet # <<>>)
          => Returned(proc'[p]) = lastRet]_vars

\* both fields of the key file decode to exactly 32 bytes
WellFormedKeyFile(f) ==
    /\ f.home /\ f.exists /\ f.readable /\ f.json
    /\ DecodeString(f.private_key).err = ""
    /\ DecodeString(f.public_key).err = ""
    /\ Len(DecodeString(f.private_key).bytes) = KeySize
    /\ Len(DecodeString(f.public_key).bytes) = KeySize

\* C9: loadDMKeys returns a key pair only for a readable key file whose
\* two fields decode to exactly 32 bytes, and fails for every other file.
LoadRejectsMalformed ==
    [][\A p \in Procs :
          (proc[p].keysFrom # "file" /\ proc'[p].keysFrom = "file")
          => WellFormedKeyFile(fs)]_vars

\* the key pairs that were generated: the one stored before the behaviour
\* and those made from the reads of the random source
GeneratedPairs == {StoredKey} \cup {KeyOfSeed(d) : d \in 1..rng}

\* C10: no zero or placeholder key -- the pair loadOrGenerateDMKeys returned
\* to a `dm` command is a generated key pair, whatever the key file held.
NeverPlaceholderKey ==
    \A p \in Procs :
        (proc[p].cmd = "send" /\ proc[p].keysFrom # "none")
        => Returned(proc[p]) \in GeneratedPairs

\* a key file that exists and is readable but does not hold two fields
\* that decode to 32 bytes each
CorruptKeyFile(f) ==
    /\ f.home /\ f.dirOK /\ f.exists /\ f.readable
    /\ ~WellFormedKeyFile(f)

\* C11: a corrupt key file is not auto-repaired -- while the key file is
\* corrupt, only the save of `dm key init --force` changes it; a `dm` send
\* leaves it as it is.
CorruptNotRepaired ==
    [][(fs' # fs /\ CorruptKeyFile(fs))
          => \E p \in Procs : proc[p].pc = "init_save" /\ proc[p].force]_vars

\* the key pair that the key file f holds, as loadDMKeys reads it
FilePair(f) ==
    [priv |-> CopyInto(KeySize, DecodeString(f.private_key).bytes),
     pub |-> CopyInto(KeySize, DecodeString(f.public_key).bytes)]

\* C12: loadOrGenerateDMKeys generates whenever loadDMKeys fails; the pair
\* it returns is the pair the key file holds when it returns; when the
\* generation or the save fails it returns an error and no key pair.
LoadOrGeneratePersists ==
    [][\A p \in Procs :
          /\ (/\ proc[p].pc = "send_load"
              /\ proc'[p].pc # "send_load"
              /\ loadDMKeys(fs).err # "")
             => (proc'[p].pc = "send_gen" /\ fs' = fs)
          /\ (/\ proc[p].pc \in {"send_load", "send_save"}
              /\ proc'[p].pc = "send_getkey")
             => (/\ fs'.home /\ fs'.dirOK /\ fs'.exists /\ fs'.json
                 /\ Returned(proc'[p]) = FilePair(fs'))
          /\ (/\ proc[p].pc \in {"send_gen", "send_save"}
              /\ proc'[p].pc = "done")
             => (/\ proc'[p].exit = 1
                 /\ proc'[p].privateKey = <<>>
                 /\ proc'[p].publicKey = <<>>
                 /\ proc'[p].reqs = <<>>)]_vars

LoadOrGenerateWitness ==
    \E p \in Procs :
        /\ proc[p].cmd = "send"
        /\ proc[p].pc = "send_getkey"
        /\ proc[p].keysFrom = "generated"
        /\ Returned(proc[p]) = FilePair(fs)

\* the operations of the requests a process has sent, in order
Ops(me) == [i \in 1..Len(me.reqs) |-> me.reqs[i].op]

SendOps == <<"GetDMKey", "SendDM", "RegisterDMKey">>

\* C13: send ordering -- a `dm` send has its key pair before it fetches the
\* recipient's key, has the envelope before it sends, sends exactly that
\* envelope, and registers its own key only as the last request, after the
\* message was created; a send that succeeded made all three requests.
SendOrdering ==
    \A p \in Procs :
        proc[p].cmd = "send"
        => LET me == proc[p]
               n == Len(me.reqs)
           IN  /\ n <= 3
               /\ Ops(me) = SubSeq(SendOps, 1, n)
               /\ n >= 1 => (me.keysFrom # "none" /\ me.publicKey # <<>>)
               /\ n >= 2 => (/\ me.encryptedContent # <<>>
                             /\ me.reqs[2].content = me.encryptedContent)
               /\ n = 3 => (me.pc = "done" /\ me.exit = 0 /\ me.err = "")
               /\ (me.pc = "done" /\ me.exit = 0) => n = 3

SendOrderingWitness ==
    \E p \in Procs :
        /\ proc[p].cmd = "send"
        /\ proc[p].pc = "done"
        /\ proc[p].exit = 0
        /\ Ops(proc[p]) = SendOps

\* C14: recipient key fetch failure is fatal -- whatever error GetDMKey
\* returns, the step that receives it ends the `dm` command with status 1,
\* with nothing encrypted and with the fetch as its only request.
RecipientKeyFetchFatal ==
    \A p \in Procs :
        /\ proc[p].pc = "send_getkey"
           => \A resp \in KeyResponses :
                 resp.err # ""
                 => LET me == dmCmdGetKey(proc[p], resp)
                    IN  /\ me.pc = "done"
                        /\ me.exit = 1
                        /\ me.encryptedContent = <<>>
                        /\ Ops(me) = <<"GetDMKey">>
        /\ proc[p].err = "failed to get recipient key"
           => (/\ proc[p].pc = "done"
               /\ proc[p].exit = 1
               /\ proc[p].encryptedContent = <<>>
               /\ Ops(proc[p]) = <<"GetDMKey">>)

RecipientKeyFetchWitness ==
    \E p \in Procs :
        /\ proc[p].cmd = "send"
        /\ proc[p].pc = "done"
        /\ proc[p].err = "failed to get recipient key"
        /\ proc[p].exit = 1

PlaceholderLines(me) ==
    {i \in 1..Len(me.out) :
        me.out[i] = Line("stdout", "dm line", Placeholder)}

Structural(input) ==
    \/ DecodeString(input).err # ""
    \/ Len(DecodeString(input).bytes) < NonceSize

\* C17: structural validation -- decryptMessage on a string that is not
\* valid base64 fails with the decode error, on a string that decodes to
\* fewer than 24 bytes with the invalid-message error; neither is the
\* authentication error, which is returned from 24 bytes on.
StructuralValidation ==
    labDec.kind = "damaged"
    => /\ DecodeString(labDec.input).err # "" => labDec.res.err = "decode"
       /\ (/\ DecodeString(labDec.input).err = ""
           /\ Len(DecodeString(labDec.input).bytes) < NonceSize)
          => labDec.res.err = "invalid encrypted message"
       /\ Structural(labDec.input) <=> labDec.res.err # "decryption failed"
       /\ labDec.res.err # ""
       /\ labDec.res.val = <<>>

StructuralWitness ==
    /\ labDec.kind = "damaged"
    /\ DecodeString(labDec.input).err = ""
    /\ Len(DecodeString(labDec.input).bytes) = NonceSize - 1
    /\ labDec.res.err = "invalid encrypted message"

\* C18: the error kind survives rendering -- two errors of different kinds
\* rendered in the same output mode have different user-facing codes.
KindSurvivesRendering ==
    \A a, b \in rendered :
        (a.json = b.json /\ a.kind # b.kind) => a.code # b.code

\* the key file path of an invocation if it followed the config root
ConfigKeyPath(root) == <<getSessionDir(root), "keys", "dm_private.key">>

\* C19: the DM key file location follows MSH_CONFIG_DIR -- an invocation
\* reads and writes the key file under its config root, and the file it
\* reads or overwrites was not written by an invocation with another
\* config root.
KeyPathFollowsConfigRoot ==
    /\ inv.op # "none" => inv.path = ConfigKeyPath(inv.root)
    /\ inv.op \in {"load", "save"} => inv.from \in {"nobody", inv.root}

\* C20: a write handler invoked while the AuthState is not authenticated
\* returns the error result "Not authenticated" and issues no request,
\* whatever its arguments; every request the write handlers issue carries
\* a token.
WriteRequiresAuth ==
    /\ (toolResult.tool \in WriteTools /\ ~toolResult.authed)
       => (/\ toolResult.res.isError
           /\ toolResult.res = NotAuthenticated.res
           /\ toolResult.calls = <<>>)
    /\ \A i \in 1..Len(apiCalls) : apiCalls[i].token # ""

WriteRequiresAuthWitness ==
    /\ toolResult.tool = "HandleLike"
    /\ ~toolResult.authed
    /\ ~IsAuthenticated(auth)
    /\ toolResult.complete
    /\ toolResult.res = NotAuthenticated.res
    /\ Len(apiCalls) > 0

\* C21: HandleStatus on an authenticated AuthState reports "Session
\* expired" and leaves the state cleared when GetStatus returns an error,
\* and leaves the state as it is when GetStatus succeeds; a cleared state
\* becomes authenticated again only by SetAuth, never by a handler.
StatusClearsExpired ==
    [][/\ IsAuthenticated(auth)
          => \A resp \in ApiResponses :
                LET r == HandleStatus(auth, resp)
                IN  IF resp.err # ""
                    THEN /\ r.res.text = "Session expired"
                         /\ ~IsAuthenticated(r.auth)
                         /\ GetToken(r.auth) = ""
                         /\ GetUser(r.auth).nil
                    ELSE r.auth = auth
       /\ (/\ toolResult'.tool = "HandleStatus"
           /\ apiCalls' # apiCalls
           /\ toolResult'.res.text = "Session expired")
          => (/\ ~IsAuthenticated(auth')
              /\ GetToken(auth') = ""
              /\ GetUser(auth').nil)
       /\ (~IsAuthenticated(auth) /\ IsAuthenticated(auth'))
          => (toolResult' = toolResult /\ apiCalls' = apiCalls)]_vars

StatusClearsExpiredWitness ==
    /\ toolResult.tool = "HandleStatus"
    /\ toolResult.authed
    /\ toolResult.res.text = "Session expired"
    /\ ~IsAuthenticated(auth)
    /\ GetUser(auth).nil

\* C22: in every state reached by SetAuth and Clear from NewAuthState,
\* IsAuthenticated holds exactly when the token is not empty and the client
\* is not nil and carries the token; SetAuth(t, u) leaves GetToken = t and
\* GetUser = u, Clear leaves an empty token and a nil user, and both leave
\* a client that is not nil.
AuthStateInvariants ==
    /\ IsAuthenticated(auth) <=> GetToken(auth) # ""
    /\ ~GetClient(auth).nil
    /\ GetClient(auth).token = GetToken(auth)
    /\ \A t \in Tokens, u \in Users :
          LET a == SetAuth(auth, t, u)
          IN  /\ GetToken(a) = t
              /\ GetUser(a) = u
              /\ IsAuthenticated(a) <=> t # ""
              /\ ~GetClient(a).nil
    /\ LET a == Clear(auth)
       IN  /\ GetToken(a) = ""
           /\ GetUser(a).nil
           /\ ~IsAuthenticated(a)
           /\ ~GetClient(a).nil

AuthStateWitness ==
    /\ IsAuthenticated(auth)
    /\ GetToken(auth) = "  "
    /\ ~GetUser(auth).nil
    /\ ~GetClient(auth).nil

\* the pair of an invocation was generated by it and returned to dmCmd
Generated(me) == me.cmd = "send" /\ me.keysFrom = "generated"

\* C26: cross-process key generation race -- the save of each invocation
\* leaves its own pair in the key file, whatever the file held; when two
\* invocations both generated, their pairs differ and the file holds one
\* of them, so the other invocation goes on with a pair that is not the
\* persisted one.
GenerationRace ==
    [][/\ \A p \in Procs :
             (proc[p].pc = "send_save" /\ proc'[p].pc = "send_getkey")
             => FilePair(fs') = Returned(proc'[p])
       /\ \A p, q \in Procs :
             (p # q /\ Generated(proc'[p]) /\ Generated(proc'[q]))
             => (/\ Returned(proc'[p]) # Returned(proc'[q])
                 /\ FilePair(fs') \in {Returned(proc'[p]), Returned(proc'[q])}
                 /\ \E r \in {p, q} : Returned(proc'[r]) # FilePair(fs'))]_vars

GenerationRaceWitness ==
    /\ Generated(proc[1]) /\ Generated(proc[2])
    /\ proc[1].pc = "done" /\ proc[1].exit = 0
    /\ SendRequests(proc[1]) # {}
    /\ FilePair(fs) = Returned(proc[2])
    /\ Returned(proc[1]) # FilePair(fs)

\* the key string does not decode to exactly 32 bytes
InvalidKey(encoded) ==
    \/ DecodeString(encoded).err # ""
    \/ Len(DecodeString(encoded).bytes) # KeySize

\* C29: the `dm` send path accepts a recipient key only if it decodes to
\* exactly 32 bytes -- for every other key string GetDMKey returned,
\* decodePublicKey fails and the command exits with status 1 and "invalid
\* recipient key", with nothing encrypted and no SendDM.
RecipientKeyValidated ==
    \A p \in Procs :
        LET me == proc[p]
        IN  /\ (me.pc = "send_encrypt" /\ InvalidKey(me.recipientKey))
               => (/\ decodePublicKey(me.recipientKey).err # ""
                   /\ dmCmdEncrypt(me, ReadRand(rng + 1, NonceSize)).err
                          = "invalid recipient key")
            /\ (me.cmd = "send" /\ me.encryptedContent # <<>>)
               => ~InvalidKey(me.recipientKey)
            /\ (/\ me.cmd = "send"
                /\ me.pc \in {"send_post", "send_register", "done"}
                /\ Ops(me) # <<>>
                /\ me.err # "failed to get recipient key"
                /\ InvalidKey(me.recipientKey))
               => (/\ me.pc = "done"
                   /\ me.exit = 1
                   /\ me.err = "invalid recipient key"
                   /\ me.encryptedContent = <<>>
                   /\ Ops(me) = <<"GetDMKey">>)

RecipientKeyValidatedWitness ==
    \E p \in Procs :
        /\ proc[p].cmd = "send"
        /\ proc[p].pc = "done"
        /\ proc[p].err = "invalid recipient key"
        /\ DecodeString(proc[p].recipientKey).err = ""
        /\ Len(DecodeString(proc[p].recipientKey).bytes) = KeySize + 1

\* the key file holds the pair of the process in its two fields
FileHolds(f, me) ==
    /\ f.home /\ f.dirOK /\ f.exists /\ f.json
    /\ f.private_key = EncodeToString(me.privateKey)
    /\ f.public_key = EncodeToString(me.publicKey)

\* C30: `dm key init` writes the new pair to the key file before it calls
\* RegisterDMKey and does not roll back -- when the registration fails the
\* command exits with status 1, the key file still holds the new pair and
\* the directory keeps the key it had.
InitSavesBeforeRegister ==
    [][\A p \in Procs :
          /\ (proc'[p].cmd = "init" /\ proc'[p].pc = "init_register")
             => FileHolds(fs', proc'[p])
          /\ (proc[p].pc = "init_register" /\ proc'[p].pc = "done")
             => (/\ fs' = fs
                 /\ FileHolds(fs', proc'[p])
                 /\ Ops(proc'[p]) = <<"RegisterDMKey">>
                 /\ proc'[p].err = "failed to register key"
                    => (proc'[p].exit = 1 /\ registered' = registered)
                 /\ proc'[p].err = ""
                    => (/\ proc'[p].exit = 0
                        /\ registered' = fs'.public_key))]_vars

InitSavesBeforeRegisterWitness ==
    \E p \in Procs :
        /\ proc[p].cmd = "init"
        /\ proc[p].pc = "done"
        /\ proc[p].err = "failed to register key"
        /\ proc[p].exit = 1
        /\ FileHolds(fs, proc[p])
        /\ registered = StoredPub
        /\ registered # fs.public_key

\* the path lies inside the directory: it is the directory or below it
Inside(path, dir) == path = dir \/ HasPrefix(path, dir \o <<Slash>>)

\* C23: validateKeyPath succeeds only if the cleaned absolute path lies
\* inside ~/.ssh or inside MSH_CONFIG_DIR and the file exists, and then
\* returns that path; every path outside the two directories is rejected
\* with "invalid key path".
KeyPathConfined ==
    keyPathCall.op = "validateKeyPath"
    => LET c == keyPathCall
           abs == Abs(HomePath, c.keyPath)
           inside == \/ Inside(abs, SshDir)
                     \/ c.configDir # <<>> /\ Inside(abs, c.configDir)
       IN  /\ c.res.err = "" => (inside /\ c.exists /\ c.res.path = abs)
           /\ ~inside => c.res.err = "invalid key path"

\* C24: a successful session.Load returns the session stored under the
\* config directory selected at the call, never a session cached for another
\* directory.
LoadFollowsConfigDir ==
    sessLoaded.op = "Load" /\ sessLoaded.err = ""
    => /\ ~sessLoaded.sess.nil
       /\ sessLoaded.sess = sessDisk[getSessionDir(sessLoaded.env)]

\* C28: whenever session.IsAuthenticated() is false, session.GetToken()
\* returns the empty string.
TokenOnlyWhenAuthenticated ==
    ~sessionIsAuthenticated(sessMem, now) => sessionGetToken(sessMem) = ""

\* there is a context: a Set succeeded, no Clear succeeded since, and not
\* more than the TTL has passed since the Set
ContextLive == ~lastSet.ctx.nil /\ now - lastSet.ctx.at <= ContextTTL

\* C25: ResolveTarget("this") returns the id of the most recent Set while
\* that context is neither cleared nor older than the TTL, and an error
\* otherwise; every other target is returned unchanged and leaves the
\* context as it is.
ThisResolvesToLastSet ==
    [][ctxResolved'.target # ""
       => /\ ctxResolved'.target = "this" /\ ContextLive
             => /\ ctxResolved'.err = ""
                /\ ctxResolved'.id = lastSet.ctx.id
                /\ ctxResolved'.fromContext
          /\ ctxResolved'.target = "this" /\ ~ContextLive
             => /\ ctxResolved'.err = "no context available: use an explicit ID"
                /\ ctxResolved'.id = ""
          /\ ctxResolved'.target # "this"
             => /\ ctxResolved'.err = ""
                /\ ctxResolved'.id = ctxResolved'.target
                /\ ~ctxResolved'.fromContext
                /\ UNCHANGED <<ctxMem, ctxDisk>>]_vars

\* "this" resolved to the second of two Sets, after time has passed
ThisResolvesToLastSetWitness ==
    /\ ctxResolved.target = "this"
    /\ ctxResolved.err = ""
    /\ ctxResolved.id = "p2"
    /\ lastSet.prev = "p1"
    /\ now > lastSet.ctx.at

\* the lock excludes, fields are accessed under the lock only, and what a
\* getter has read is the field as the last complete SetAuth or Clear left it
ConcurrentSafe ==
    /\ ~(mu.writer /\ mu.readers # {})
    /\ gor[Writer].pc \in {"token", "user", "client", "unlock"} => mu.writer
    /\ gor[Writer].pc = "unlock"
       => auth = WriterTarget(gor[Writer].op, committed)
    /\ ~mu.writer => auth = committed
    /\ \A r \in Readers :
          /\ gor[r].pc \in {"read", "runlock"} => r \in mu.readers
          /\ gor[r].pc = "runlock"
             => /\ gor[r].obs.has
                /\ gor[r].obs.val = Getter(Getters[gor[r].op], committed)

AllDone == \A g \in Goroutines : gor[g].pc = "done"

\* C27: with one goroutine calling SetAuth and Clear and several calling
\* the getters, every getter observes its field as one complete SetAuth or
\* Clear left it, no field is accessed without the lock while it is
\* written, and all goroutines terminate.
AuthStateConcurrentUse == []ConcurrentSafe /\ <>AllDone

\* a reader has read the token that SetAuth stored while the writer waits
\* for the lock to call Clear
AuthStateConcurrentUseWitness ==
    /\ gor[Writer].pc = "lock"
    /\ WriterOps[gor[Writer].op] = "Clear"
    /\ \E r \in Readers :
          /\ gor[r].pc = "runlock"
          /\ Getters[gor[r].op] = "GetToken"
          /\ gor[r].obs.val = "token"

====
